---- MODULE Spec2Model ----
(***************************************************************************)
(* Model of the universal search engine (search, searchItems, createSearcher, *)
(* quickSearch, clearSearchCaches, getCacheStats) and of its three module-   *)
(* level caches.                                                            *)
(*                                                                          *)
(* Strings are sequences of one-character strings.  Numbers that the code   *)
(* holds as IEEE doubles (weights, scores, similarities) are exact          *)
(* rationals [n, d] here; no claim below depends on rounding.               *)
(***************************************************************************)
EXTENDS Integers, Sequences, FiniteSets, TLC

(***************************************************************************)
(* Bounds of the model.                                                     *)
(***************************************************************************)
\* The number of API calls in a behaviour (guard of every action).
MaxSteps == 2

(***************************************************************************)
(* Rational arithmetic.                                                     *)
(***************************************************************************)
Abs(x) == IF x < 0 THEN -x ELSE x

Min(a, b) == IF a <= b THEN a ELSE b

Max(a, b) == IF a >= b THEN a ELSE b

RECURSIVE GCD(_, _)
GCD(a, b) == IF b = 0 THEN a ELSE GCD(b, a % b)

\* The fraction n/d in lowest terms with a positive denominator; n and d are
\* evaluated once, as the pair p.
Rat(n, d) ==
  CHOOSE r \in
    { LET s == IF p[2] < 0 THEN -1 ELSE 1
          g == GCD(Abs(p[1]), Abs(p[2]))
      IN  [n |-> (s * p[1]) \div g, d |-> (s * p[2]) \div g] :
        p \in {<<n, d>>} } : TRUE

RInt(k) == [n |-> k, d |-> 1]

RAdd(a, b) == Rat(a.n * b.d + b.n * a.d, a.d * b.d)

RSub(a, b) == Rat(a.n * b.d - b.n * a.d, a.d * b.d)

RMul(a, b) == Rat(a.n * b.n, a.d * b.d)

RLess(a, b) == a.n * b.d < b.n * a.d

RLeq(a, b) == a.n * b.d <= b.n * a.d

RMax(a, b) == IF RLess(a, b) THEN b ELSE a

(***************************************************************************)
(* JavaScript strings.                                                      *)
(***************************************************************************)
\* String.prototype.toLowerCase on one character of the model's alphabet.
LowerChar(c) ==
  CASE c = "J" -> "j"
    [] c = "O" -> "o"
    [] c = "A" -> "a"
    [] OTHER -> c

toLowerCase(s) == [i \in 1..Len(s) |-> LowerChar(s[i])]

\* /\s/.test(char)
IsSpace(c) == c = " "

RECURSIVE trimStart(_)
trimStart(s) ==
  IF s # <<>> /\ IsSpace(Head(s)) THEN trimStart(Tail(s)) ELSE s

RECURSIVE trimEnd(_)
trimEnd(s) ==
  IF s # <<>> /\ IsSpace(s[Len(s)]) THEN trimEnd(SubSeq(s, 1, Len(s) - 1)) ELSE s

\* trim left out: the string is returned as it is.
trimNothing(s) == s

\* String.prototype.trim
trim(s) == trimEnd(trimStart(s))

\* String.prototype.startsWith
startsWith(t, q) == Len(q) <= Len(t) /\ SubSeq(t, 1, Len(q)) = q

\* String.prototype.indexOf: 0-based index of the first occurrence, or -1.
indexOf(t, q) ==
  LET hits == {i \in 0..(Len(t) - Len(q)) : SubSeq(t, i + 1, i + Len(q)) = q}
  IN  IF hits = {} THEN -1 ELSE CHOOSE i \in hits : \A j \in hits : i <= j

(***************************************************************************)
(* levenshteinDistance: two rolling rows over the shorter string.           *)
(***************************************************************************)
\* The minimum without the substitution term.
Min3NoSubstitution(a, b, c) == Min(a, b)

Min3(a, b, c) == Min(a, Min(b, c))

\* One pass of the inner loop: currRow[0..j] given prevRow, for row i.
RECURSIVE levRow(_, _, _, _, _)
levRow(str1, str2, prevRow, i, j) ==
  IF j = 0 THEN <<i>>
  ELSE LET left == levRow(str1, str2, prevRow, i, j - 1)
           cost == IF str1[j] = str2[i] THEN 0 ELSE 1
       IN  Append(left, Min3(prevRow[j + 1] + 1,
                             left[j] + 1,
                             prevRow[j] + cost))

\* The outer loop; rows are 1-indexed sequences holding indices 0..len1.
RECURSIVE levRows(_, _, _, _)
levRows(str1, str2, prevRow, i) ==
  IF i > Len(str2) THEN prevRow
  ELSE levRows(str1, str2, levRow(str1, str2, prevRow, i, Len(str1)), i + 1)

levenshteinDistance(a, b) ==
  LET str1 == IF Len(a) > Len(b) THEN b ELSE a
      str2 == IF Len(a) > Len(b) THEN a ELSE b
      len1 == Len(str1)
      first == [k \in 1..(len1 + 1) |-> k - 1]
  IN  levRows(str1, str2, first, 1)[len1 + 1]

(***************************************************************************)
(* JavaScript values: the tagged union the resolver walks.  An object is   *)
(* its own-property list in declaration order; a property name or a path   *)
(* is a sequence of name atoms in which the atom "." is the dot character,  *)
(* so "info.bio" is <<"info", ".", "bio">> and split/join do real work.     *)
(* The property names of the model are not names of Object.prototype or     *)
(* Array.prototype members, so `key in current` is an own-property test.    *)
(***************************************************************************)
StrV(s) == [t |-> "string", s |-> s]

NumV(k) == [t |-> "number", k |-> k]

NullV == [t |-> "null"]

UndefV == [t |-> "undefined"]

ObjV(e) == [t |-> "object", e |-> e]

ArrV(a) == [t |-> "array", a |-> a]

Prop(k, v) == [k |-> k, v |-> v]

EmptyStr == StrV(<<>>)

\* ToBoolean
Truthy(v) ==
  CASE v.t = "string" -> v.s # <<>>
    [] v.t = "number" -> v.k # 0
    [] v.t \in {"null", "undefined"} -> FALSE
    [] OTHER -> TRUE

\* typeof v === "object"
TypeofObject(v) == v.t \in {"object", "array", "null"}

\* The decimal name of an array index.
IndexName(i) ==
  CASE i = 0 -> "0"
    [] i = 1 -> "1"
    [] i = 2 -> "2"
    [] OTHER -> "3"

\* key in current, for an object or an array
HasProp(v, key) ==
  CASE v.t = "object" -> \E i \in 1..Len(v.e) : v.e[i].k = key
    [] v.t = "array" ->
         \/ key = <<"length">>
         \/ \E i \in 0..(Len(v.a) - 1) : key = <<IndexName(i)>>
    [] OTHER -> FALSE

\* current[key], for a key that is in current
GetProp(v, key) ==
  CASE v.t = "object" ->
         v.e[CHOOSE i \in 1..Len(v.e) : v.e[i].k = key].v
    [] v.t = "array" ->
         IF key = <<"length">> THEN NumV(Len(v.a))
         ELSE v.a[1 + CHOOSE i \in 0..(Len(v.a) - 1) : key = <<IndexName(i)>>]
    [] OTHER -> UndefV

\* path.split(".")
RECURSIVE split(_)
split(p) ==
  LET dots == {i \in 1..Len(p) : p[i] = "."}
  IN  IF dots = {} THEN <<p>>
      ELSE LET i == CHOOSE x \in dots : \A y \in dots : x <= y
           IN  <<SubSeq(p, 1, i - 1)>> \o split(SubSeq(p, i + 1, Len(p)))

\* The reducer of getNestedValue, folded over the keys from the left.
RECURSIVE reduceKeys(_, _)
reduceKeys(current, keys) ==
  IF keys = <<>> THEN current
  ELSE reduceKeys(
         IF Truthy(current) /\ TypeofObject(current) /\ HasProp(current, Head(keys))
         THEN GetProp(current, Head(keys))
         ELSE EmptyStr,
         Tail(keys))

\* getNestedValue; the result is whatever value sits at the path.
getNestedValue(obj, path) ==
  LET r == reduceKeys(obj, split(path))
  IN  IF r.t \in {"null", "undefined"} THEN EmptyStr ELSE r

\* The walk of detectStringFields (the part below the root-object cache).
RECURSIVE detectWalk(_, _, _)
RECURSIVE detectEntries(_, _, _, _)
detectEntries(e, i, prefix, maxDepth) ==
  IF i > Len(e) THEN <<>>
  ELSE LET key == e[i].k
           value == e[i].v
           fieldPath == IF prefix # <<>> THEN prefix \o <<".">> \o key ELSE key
           here == IF value.t = "string" /\ Len(value.s) > 0 THEN <<fieldPath>>
                   ELSE IF value.t = "object"
                        THEN detectWalk(value, fieldPath, maxDepth - 1)
                        ELSE <<>>
       IN  here \o detectEntries(e, i + 1, prefix, maxDepth)

\* The walk without its depth limit.
detectWalkAnyDepth(obj, prefix, maxDepth) ==
  IF ~Truthy(obj) \/ ~TypeofObject(obj) THEN <<>>
  ELSE IF obj.t = "array"
       THEN detectEntries([i \in 1..Len(obj.a) |-> Prop(<<IndexName(i - 1)>>, obj.a[i])],
                          1, prefix, maxDepth)
       ELSE detectEntries(obj.e, 1, prefix, maxDepth)

detectWalk(obj, prefix, maxDepth) ==
  IF maxDepth <= 0 \/ ~Truthy(obj) \/ ~TypeofObject(obj) THEN <<>>
  ELSE IF obj.t = "array"
       THEN detectEntries([i \in 1..Len(obj.a) |-> Prop(<<IndexName(i - 1)>>, obj.a[i])],
                          1, prefix, maxDepth)
       ELSE detectEntries(obj.e, 1, prefix, maxDepth)

\* maxDepth = 3, the default of detectStringFields
DetectMaxDepth == 3

(***************************************************************************)
(* The string cache and getProcessedString.                                 *)
(***************************************************************************)
\* MAX_STRING_CACHE_SIZE is 500 in the source and the periodic cleanup runs
\* every 100th call; both are scaled down here so that evictions happen
\* within the model's bounds.  The halves and quarters are the source's.
MAX_STRING_CACHE_SIZE == 4

CleanupInterval == 2

RECURSIVE Digits(_)
Digits(k) ==
  LET d == <<"0", "1", "2", "3", "4", "5", "6", "7", "8", "9">>
  IN  IF k < 10 THEN <<d[k + 1]>> ELSE Digits(k \div 10) \o <<d[(k % 10) + 1]>>

\* Array.prototype.join(",") over the string forms of the elements
RECURSIVE JoinComma(_, _)

\* `${str}`: the string form a template literal gives a value.
TemplateString(v) ==
  CASE v.t = "string" -> v.s
    [] v.t = "number" -> Digits(v.k)
    [] v.t = "array" -> JoinComma(v.a, 1)
    [] v.t = "object" -> <<"[object Object]">>

JoinComma(a, i) ==
  IF i > Len(a) THEN <<>>
  ELSE TemplateString(a[i]) \o (IF i < Len(a) THEN <<",">> ELSE <<>>) \o JoinComma(a, i + 1)

\* Map.prototype.has / get on the insertion-ordered cache
CacheHas(cache, key) == \E i \in 1..Len(cache) : cache[i].k = key

CacheGet(cache, key) == cache[CHOOSE i \in 1..Len(cache) : cache[i].k = key].v

\* An eviction that deletes nothing.
DropNone(cache, n) == cache

\* Delete the first n keys in insertion order (keys().slice(0, n), delete each).
DropOldest(cache, n) == SubSeq(cache, Min(n, Len(cache)) + 1, Len(cache))

\* getProcessedString that returns the string unprocessed.
getProcessedStringRaw(cache, str, caseSensitive) ==
  [val |-> str, cache |-> cache, throws |-> FALSE]

\* getProcessedString(str, caseSensitive) on a value `str`.  The key is
\* `lc:${str}` (the constant prefix is left out).  Returns the processed
\* value, the cache afterwards, and whether toLowerCase raised TypeError
\* because str is not a string.
getProcessedString(cache, str, caseSensitive) ==
  IF caseSensitive THEN [val |-> str, cache |-> cache, throws |-> FALSE]
  ELSE LET cacheKey == TemplateString(str) IN
    IF CacheHas(cache, cacheKey)
    THEN [val |-> StrV(CacheGet(cache, cacheKey)), cache |-> cache, throws |-> FALSE]
    ELSE IF str.t # "string"
    THEN [val |-> str, cache |-> cache, throws |-> TRUE]
    ELSE LET processed == toLowerCase(str.s)
             kept == IF Len(cache) >= MAX_STRING_CACHE_SIZE
                     THEN DropOldest(cache, MAX_STRING_CACHE_SIZE \div 2)
                     ELSE cache
         IN  [val |-> StrV(processed),
              cache |-> Append(kept, [k |-> cacheKey, v |-> processed]),
              throws |-> FALSE]

(***************************************************************************)
(* calculateFieldScore.                                                     *)
(***************************************************************************)
\* The absent `position` property of a fuzzy match.
NoPosition == -1

NoMatch == [type |-> "null"]

\* text.length, for the values that have a numeric length
LengthOf(v) ==
  CASE v.t = "string" -> Len(v.s)
    [] v.t = "array" -> Len(v.a)

ExactStartScore(fieldWeight) == RMul(fieldWeight, RInt(20))

\* The exact-contain score without its floor.
ExactContainScoreNoFloor(fieldWeight, textLength, position) ==
  LET lengthBonus == RMax(RInt(1), Rat(100, textLength))
      positionPenalty == Rat(position, 10)
  IN  RMul(fieldWeight, RSub(RAdd(RInt(10), lengthBonus), positionPenalty))

\* fieldWeight * (10 + lengthBonus - positionPenalty), floored at fieldWeight
ExactContainScore(fieldWeight, textLength, position) ==
  LET lengthBonus == RMax(RInt(1), Rat(100, textLength))
      positionPenalty == Rat(position, 10)
      score == RMul(fieldWeight, RSub(RAdd(RInt(10), lengthBonus), positionPenalty))
  IN  RMax(score, fieldWeight)

\* The similarity taken over the length of the word alone.
FuzzySimilarityByWordLength(word, searchQuery) ==
  LET distance == levenshteinDistance(word, searchQuery)
  IN  Rat(Len(word) - distance, Len(word))

FuzzySimilarity(word, searchQuery) ==
  LET distance == levenshteinDistance(word, searchQuery)
      maxLength == Max(Len(word), Len(searchQuery))
  IN  Rat(maxLength - distance, maxLength)

FuzzyScore(fieldWeight, similarity, textLength) ==
  LET lengthBonus == RMax(RInt(1), Rat(50, textLength))
  IN  RMul(RMul(fieldWeight, similarity), RAdd(RInt(2), lengthBonus))

\* The manual word scan: i runs over 0..searchText.length.
RECURSIVE fuzzyScan(_, _, _, _, _, _, _, _)
fuzzyScan(searchText, searchQuery, text, fieldWeight, fuzzyThreshold, i, wordStart, bestMatch) ==
  IF i > Len(searchText) THEN bestMatch
  ELSE IF i = Len(searchText) \/ IsSpace(searchText[i + 1])
       THEN LET word == SubSeq(searchText, wordStart + 1, i)
                similarity == FuzzySimilarity(word, searchQuery)
                score == FuzzyScore(fieldWeight, similarity, LengthOf(text))
                best == IF i - wordStart >= 3
                           /\ RLeq(fuzzyThreshold, similarity)
                           /\ (bestMatch = NoMatch \/ RLess(bestMatch.score, score))
                        THEN [field |-> <<>>, value |-> text, score |-> score,
                              type |-> "fuzzy", position |-> NoPosition]
                        ELSE bestMatch
            IN  fuzzyScan(searchText, searchQuery, text, fieldWeight, fuzzyThreshold,
                          i + 1, i + 1, best)
       ELSE fuzzyScan(searchText, searchQuery, text, fieldWeight, fuzzyThreshold,
                      i + 1, wordStart, bestMatch)

\* calculateFieldScore(text, query, fieldWeight, options) with the string
\* cache threaded through.  `text` is a value, `query` a string.
calculateFieldScore(cache, text, query, fieldWeight, options) ==
  IF ~Truthy(text) \/ query = <<>>
  THEN [match |-> NoMatch, cache |-> cache, throws |-> FALSE]
  ELSE
  LET pt == getProcessedString(cache, text, options.caseSensitive) IN
  IF pt.throws THEN [match |-> NoMatch, cache |-> pt.cache, throws |-> TRUE]
  ELSE
  LET pq == getProcessedString(pt.cache, StrV(query), options.caseSensitive)
      searchText == pt.val.s
      searchQuery == pq.val.s
      position == indexOf(searchText, searchQuery)
  IN
  \* searchText.startsWith on a value that is not a string: TypeError
  IF pt.val.t # "string" THEN [match |-> NoMatch, cache |-> pq.cache, throws |-> TRUE]
  ELSE IF startsWith(searchText, searchQuery)
  THEN [match |-> [field |-> <<>>, value |-> text,
                   score |-> ExactStartScore(fieldWeight),
                   type |-> "exact-start", position |-> 0],
        cache |-> pq.cache, throws |-> FALSE]
  ELSE IF position # -1
  THEN [match |-> [field |-> <<>>, value |-> text,
                   score |-> ExactContainScore(fieldWeight, LengthOf(text), position),
                   type |-> "exact-contain", position |-> position],
        cache |-> pq.cache, throws |-> FALSE]
  ELSE IF Len(searchQuery) >= options.minFuzzyLength
  THEN [match |-> fuzzyScan(searchText, searchQuery, text, fieldWeight,
                            options.fuzzyThreshold, 0, 0, NoMatch),
        cache |-> pq.cache, throws |-> FALSE]
  ELSE [match |-> NoMatch, cache |-> pq.cache, throws |-> FALSE]

(***************************************************************************)
(* Options.  A SearchOptions object is a record holding the keys the caller *)
(* supplied; destructuring fills in the defaults for the others.            *)
(***************************************************************************)
DEFAULT_FUZZY_THRESHOLD == Rat(7, 10)

DEFAULT_MIN_FUZZY_LENGTH == 3

DEFAULT_LIMIT == 100

DEFAULT_SEARCH_OPTIONS ==
  [fieldWeights |-> <<>>,
   fuzzyThreshold |-> DEFAULT_FUZZY_THRESHOLD,
   minFuzzyLength |-> DEFAULT_MIN_FUZZY_LENGTH,
   limit |-> DEFAULT_LIMIT,
   caseSensitive |-> FALSE]

HasOpt(options, key) == key \in DOMAIN options

\* const { key = DEFAULT_SEARCH_OPTIONS.key } = options
OptOrDefault(options, key) ==
  IF HasOpt(options, key) THEN options[key] ELSE DEFAULT_SEARCH_OPTIONS[key]

(***************************************************************************)
(* Field statistics (calculateFieldStats inside search).                    *)
(***************************************************************************)
\* "Sample only first 100 items"; scaled down with the collections.
SampleCap == 4

\* toLowerCase on a whole property name
LowerName(a) ==
  CASE a = "Name" -> "name"
    [] a = "Title" -> "title"
    [] OTHER -> a

\* fieldPath.split(".").pop()?.toLowerCase() ?? ""
LastSegmentLower(fieldPath) ==
  LET segs == split(fieldPath)
      last == segs[Len(segs)]
  IN  [i \in 1..Len(last) |-> LowerName(last[i])]

BaseWeight(fieldName) ==
  IF fieldName \in {<<"title">>, <<"name">>, <<"heading">>} THEN 5
  ELSE IF fieldName \in {<<"description">>, <<"summary">>, <<"subtitle">>} THEN 3
  ELSE IF fieldName \in {<<"content">>, <<"body">>, <<"text">>} THEN 1
  ELSE 1

LengthWeight(avgLength) ==
  IF RLess(avgLength, RInt(50)) THEN Rat(2, 1)
  ELSE IF RLess(avgLength, RInt(100)) THEN Rat(3, 2)
  ELSE IF RLess(avgLength, RInt(300)) THEN Rat(6, 5)
  ELSE Rat(1, 1)

\* The sampling loop: <<totalLength, count>> over items i..sampleSize.
RECURSIVE sampleLengths(_, _, _, _)
sampleLengths(data, fieldPath, i, sampleSize) ==
  IF i > sampleSize THEN <<0, 0>>
  ELSE LET text == getNestedValue(data[i], fieldPath)
           rest == sampleLengths(data, fieldPath, i + 1, sampleSize)
       IN  IF Truthy(text) /\ text.t = "string" /\ Len(text.s) > 0
           THEN <<rest[1] + Len(text.s), rest[2] + 1>>
           ELSE rest

\* The statistics with every record of the collection in the sample.
calculateFieldStatsNoCap(data, fieldPath) ==
  LET tc == sampleLengths(data, fieldPath, 1, Len(data))
      avgLength == IF tc[2] > 0 THEN Rat(tc[1], tc[2]) ELSE RInt(0)
      baseWeight == BaseWeight(LastSegmentLower(fieldPath))
  IN  [avgLength |-> avgLength,
       weight |-> RMul(RInt(baseWeight), LengthWeight(avgLength))]

calculateFieldStats(data, fieldPath) ==
  LET sampleSize == Min(Len(data), SampleCap)
      tc == sampleLengths(data, fieldPath, 1, sampleSize)
      avgLength == IF tc[2] > 0 THEN Rat(tc[1], tc[2]) ELSE RInt(0)
      baseWeight == BaseWeight(LastSegmentLower(fieldPath))
  IN  [avgLength |-> avgLength,
       weight |-> RMul(RInt(baseWeight), LengthWeight(avgLength))]

\* Range of a sequence
Range(s) == {s[i] : i \in 1..Len(s)}

\* The Map built by `for (const field of searchFields) fieldStats.set(...)`
buildFieldStats(data, searchFields) ==
  [f \in Range(searchFields) |-> calculateFieldStats(data, f)]

(***************************************************************************)
(* search.  The engine state is st = [sc, dc, fc, n]: the string cache, the *)
(* field-detection cache (keyed by record identity), the field-stats cache  *)
(* (keyed by collection identity) and searchCallCount.  A collection is     *)
(* named by its identity c; Collection(c) is its content.  A Result refers  *)
(* to its record by the record's index in the collection.                   *)
(***************************************************************************)
\* detectStringFields(data[0]) with the root-object cache; `rec` names the
\* object, `obj` is its content.
detectStringFields(dc, rec, obj) ==
  IF DetectMaxDepth <= 0 \/ ~Truthy(obj) \/ ~TypeofObject(obj)
  THEN [fields |-> <<>>, dc |-> dc]
  ELSE IF rec \in DOMAIN dc
  THEN [fields |-> dc[rec], dc |-> dc]
  ELSE LET fields == detectWalk(obj, <<>>, DetectMaxDepth)
       IN  [fields |-> fields, dc |-> (rec :> fields) @@ dc]

\* a.matches.reduce((sum, match) => sum + match.value.length, 0)
RECURSIVE TotalLength(_)
TotalLength(matches) ==
  IF matches = <<>> THEN 0
  ELSE LengthOf(Head(matches).value) + TotalLength(Tail(matches))

\* The comparator without the tie-break on total text length.
CompareResultsScoreOnly(a, b) ==
  IF a.score # b.score
  THEN IF RLess(b.score, a.score) THEN -1 ELSE 1
  ELSE 0

\* The sort comparator: negative when a goes before b.
CompareResults(a, b) ==
  IF a.score # b.score
  THEN IF RLess(b.score, a.score) THEN -1 ELSE 1
  ELSE TotalLength(a.matches) - TotalLength(b.matches)

\* Array.prototype.sort is stable: x goes before the first element it beats.
InsertSorted(sorted, x) ==
  LET after == {i \in 1..Len(sorted) : CompareResults(x, sorted[i]) < 0}
      at == IF after = {} THEN Len(sorted) + 1
            ELSE CHOOSE i \in after : \A j \in after : i <= j
  IN  SubSeq(sorted, 1, at - 1) \o <<x>> \o SubSeq(sorted, at, Len(sorted))

RECURSIVE SortResults(_)
SortResults(results) ==
  IF results = <<>> THEN <<>>
  ELSE InsertSorted(SortResults(SubSeq(results, 1, Len(results) - 1)),
                    results[Len(results)])

\* slice(0, limit * 3): truncation to the over-collection cutoff instead.
SliceToCutoff(results, limit) == SubSeq(results, 1, Min(limit * 3, Len(results)))

\* results.slice(0, limit)
Slice(results, limit) == SubSeq(results, 1, Min(limit, Len(results)))

\* The weight resolution with the inferred weight tried first.
ResolveWeightStatsFirst(fieldWeights, fieldStats, field) ==
  IF field \in DOMAIN fieldStats THEN fieldStats[field].weight
  ELSE IF field \in DOMAIN fieldWeights THEN fieldWeights[field]
  ELSE RInt(1)

\* explicitWeight ?? fieldStat?.weight ?? 1
ResolveWeight(fieldWeights, fieldStats, field) ==
  IF field \in DOMAIN fieldWeights THEN fieldWeights[field]
  ELSE IF field \in DOMAIN fieldStats THEN fieldStats[field].weight
  ELSE RInt(1)

\* The loops of search are written as operators that take the value of each
\* call they make as a parameter, one operator per step of the loop body.
RECURSIVE scanFields(_, _, _, _, _)
RECURSIVE scanField(_, _, _, _, _, _)
RECURSIVE addMatch(_, _, _, _, _)

\* The accumulation with `totalScore = match.score` for `totalScore += ...`.
addMatchLastScore(ctx, item, k, acc, r) ==
  IF r.throws THEN [sc |-> r.cache, throws |-> TRUE, acc |-> acc]
  ELSE IF r.match # NoMatch
  THEN scanFields(ctx, item, k + 1, r.cache,
                  [matches |-> Append(acc.matches,
                                      [r.match EXCEPT !.field = ctx.searchFields[k]]),
                   totalScore |-> r.match.score])
  ELSE scanFields(ctx, item, k + 1, r.cache, acc)

\* `if (match) { match.field = field; matches.push(match); totalScore += ... }`
\* for the outcome r of calculateFieldScore on field k, then the next field.
addMatch(ctx, item, k, acc, r) ==
  IF r.throws THEN [sc |-> r.cache, throws |-> TRUE, acc |-> acc]
  ELSE IF r.match # NoMatch
  THEN scanFields(ctx, item, k + 1, r.cache,
                  [matches |-> Append(acc.matches,
                                      [r.match EXCEPT !.field = ctx.searchFields[k]]),
                   totalScore |-> RAdd(acc.totalScore, r.match.score)])
  ELSE scanFields(ctx, item, k + 1, r.cache, acc)

\* The body of the field loop for the extracted text of field k.
scanField(ctx, item, k, sc, acc, text) ==
  IF ~Truthy(text) THEN scanFields(ctx, item, k + 1, sc, acc)
  ELSE addMatch(ctx, item, k, acc,
                calculateFieldScore(sc, text, ctx.searchQuery,
                                    ResolveWeight(ctx.fieldWeights, ctx.fieldStats,
                                                  ctx.searchFields[k]),
                                    ctx.searchOptions))

\* The inner loop over searchFields for one item, from field k on.
scanFields(ctx, item, k, sc, acc) ==
  IF k > Len(ctx.searchFields) THEN [sc |-> sc, throws |-> FALSE, acc |-> acc]
  ELSE scanField(ctx, item, k, sc, acc, getNestedValue(item, ctx.searchFields[k]))

RECURSIVE scanItems(_, _, _, _)
RECURSIVE pushResult(_, _, _, _)
RECURSIVE checkTermination(_, _, _, _)

\* `if (results.length >= maxResults) break`, else the next item.
checkTermination(ctx, itemIndex, sc, results) ==
  IF Len(results) >= ctx.maxResults
  THEN [sc |-> sc, throws |-> FALSE, results |-> results]
  ELSE scanItems(ctx, itemIndex + 1, sc, results)

\* `if (matches.length > 0) results.push(...)` for the outcome f of the field
\* loop on item itemIndex.
pushResult(ctx, itemIndex, results, f) ==
  IF f.throws THEN [sc |-> f.sc, throws |-> TRUE, results |-> results]
  ELSE checkTermination(ctx, itemIndex, f.sc,
         IF Len(f.acc.matches) > 0
         THEN Append(results, [item |-> itemIndex, score |-> f.acc.totalScore,
                               matches |-> f.acc.matches])
         ELSE results)

\* The item loop with `break` for `continue` at an item that is not truthy.
scanItemsStopsAtFalsy(ctx, itemIndex, sc, results) ==
  IF itemIndex > Len(ctx.data) THEN [sc |-> sc, throws |-> FALSE, results |-> results]
  ELSE IF ~Truthy(ctx.data[itemIndex])
  THEN [sc |-> sc, throws |-> FALSE, results |-> results]
  ELSE pushResult(ctx, itemIndex, results,
                  scanFields(ctx, ctx.data[itemIndex], 1, sc,
                             [matches |-> <<>>, totalScore |-> RInt(0)]))

\* The loop over the items, from itemIndex on, with the early termination.
scanItems(ctx, itemIndex, sc, results) ==
  IF itemIndex > Len(ctx.data) THEN [sc |-> sc, throws |-> FALSE, results |-> results]
  ELSE IF ~Truthy(ctx.data[itemIndex]) THEN scanItems(ctx, itemIndex + 1, sc, results)
  ELSE pushResult(ctx, itemIndex, results,
                  scanFields(ctx, ctx.data[itemIndex], 1, sc,
                             [matches |-> <<>>, totalScore |-> RInt(0)]))

\* The periodic cleanup at the head of search, for the incremented counter.
PeriodicCleanup(sc, count) ==
  IF count % CleanupInterval = 0 /\ 2 * Len(sc) > MAX_STRING_CACHE_SIZE
  THEN DropOldest(sc, MAX_STRING_CACHE_SIZE \div 4)
  ELSE sc

\* fields || (data.length > 0 ? detectStringFields(data[0]) : [])
resolveFields(dc, c, data, options) ==
  IF HasOpt(options, "fields") THEN [fields |-> options.fields, dc |-> dc]
  ELSE IF Len(data) > 0 THEN detectStringFields(dc, <<c, 1>>, data[1])
  ELSE [fields |-> <<>>, dc |-> dc]

\* fieldStatsCache.has(data) ? fieldStatsCache.get(data) : the new Map
resolveFieldStats(fc, c, data, searchFields) ==
  IF c \in DOMAIN fc THEN fc[c] ELSE buildFieldStats(data, searchFields)

\* A cutoff of the scan below the limit.
MaxResultsBelowLimit(limit, data) == IF limit # 0 THEN limit - 1 ELSE Len(data)

\* limit ? limit * 3 : data.length
MaxResults(limit, data) == IF limit # 0 THEN limit * 3 ELSE Len(data)

\* The sort, the slice and the return, for the outcome `scan` of the item
\* loop; st1 is the engine state the call leaves.
searchReturn(st1, limit, scan) ==
  IF scan.throws
  THEN [st |-> [st1 EXCEPT !.sc = scan.sc], error |-> "TypeError", results |-> <<>>]
  ELSE [st |-> [st1 EXCEPT !.sc = scan.sc], error |-> "none",
        results |-> IF limit # 0 THEN Slice(SortResults(scan.results), limit)
                    ELSE SortResults(scan.results)]

\* search from the field statistics on: caches them and runs the item loop.
searchScan(st, c, data, query, options, sc0, det, fieldStats) ==
  searchReturn(
    [sc |-> sc0, dc |-> det.dc,
     fc |-> IF c \in DOMAIN st.fc THEN st.fc ELSE (c :> fieldStats) @@ st.fc,
     n |-> st.n + 1],
    OptOrDefault(options, "limit"),
    scanItems([data |-> data, searchFields |-> det.fields,
               fieldWeights |-> OptOrDefault(options, "fieldWeights"),
               fieldStats |-> fieldStats,
               searchQuery |-> trim(query),
               searchOptions |->
                 [fuzzyThreshold |-> OptOrDefault(options, "fuzzyThreshold"),
                  minFuzzyLength |-> OptOrDefault(options, "minFuzzyLength"),
                  caseSensitive |-> OptOrDefault(options, "caseSensitive")],
               maxResults |-> MaxResults(OptOrDefault(options, "limit"), data)],
              1, sc0, <<>>))

\* search from the resolved field set `det` on.
searchFieldStats(st, c, data, query, options, sc0, det) ==
  searchScan(st, c, data, query, options, sc0, det,
             resolveFieldStats(st.fc, c, data, det.fields))

\* search with the counter incremented after the empty-query return.
searchBodyCountsAfterReturn(st, c, data, query, options, sc0) ==
  IF trim(query) = <<>>
  THEN [st |-> [st EXCEPT !.sc = sc0],
        error |-> "none",
        results |-> [i \in 1..Len(data) |->
                       [item |-> i, score |-> RInt(0), matches |-> <<>>]]]
  ELSE searchFieldStats(st, c, data, query, options, sc0,
                        resolveFields(st.dc, c, data, options))

\* search after the counter and the periodic cleanup (sc0 is the string cache
\* they leave).
searchBody(st, c, data, query, options, sc0) ==
  IF trim(query) = <<>>
  THEN [st |-> [st EXCEPT !.n = st.n + 1, !.sc = sc0],
        error |-> "none",
        results |-> [i \in 1..Len(data) |->
                       [item |-> i, score |-> RInt(0), matches |-> <<>>]]]
  ELSE searchFieldStats(st, c, data, query, options, sc0,
                        resolveFields(st.dc, c, data, options))

\* search(data, query, options) from engine state st; `data` is the content
\* of the collection named c.  Returns the state afterwards and either the
\* results or the TypeError that escaped.
search(st, c, data, query, options) ==
  searchBody(st, c, data, query, options, PeriodicCleanup(st.sc, st.n + 1))

\* The items of the outcome r of search in the order of the collection.
ItemsInCollectionOrder(r) ==
  [st |-> r.st, error |-> r.error,
   results |->
     [i \in 1..Len(r.results) |->
        CHOOSE x \in {r.results[j].item : j \in 1..Len(r.results)} :
          Cardinality({j \in 1..Len(r.results) : r.results[j].item < x}) = i - 1]]

\* .map((result) => result.item) on the outcome r of search
ItemsOf(r) ==
  [st |-> r.st, error |-> r.error,
   results |-> [i \in 1..Len(r.results) |-> r.results[i].item]]

\* searchItems(data, query, options)
searchItems(st, c, data, query, options) ==
  ItemsOf(search(st, c, data, query, options))

\* The spread in the other order, { ...overrides, ...config }.
MergeConfigFirst(config, overrides) == config @@ overrides

\* { ...config, ...overrides }: the keys of overrides win.
MergeOptions(config, overrides) == overrides @@ config

\* createSearcher(config)(data, query, overrides)
createSearcher(config, st, c, data, query, overrides) ==
  search(st, c, data, query, MergeOptions(config, overrides))

\* The options quickSearch passes besides `fields`.
QuickSearchDefaults ==
  [fieldWeights |-> DEFAULT_SEARCH_OPTIONS.fieldWeights,
   fuzzyThreshold |-> DEFAULT_SEARCH_OPTIONS.fuzzyThreshold,
   minFuzzyLength |-> DEFAULT_SEARCH_OPTIONS.minFuzzyLength,
   limit |-> DEFAULT_SEARCH_OPTIONS.limit,
   caseSensitive |-> DEFAULT_SEARCH_OPTIONS.caseSensitive]

\* quickSearch(data, query, fields?); args holds `fields` when it was passed
\* (an undefined `fields` reads as an absent one in search).
quickSearch(st, c, data, query, args) ==
  searchItems(st, c, data, query, args @@ QuickSearchDefaults)

(***************************************************************************)
(* The inputs of the model: two collections, the queries and the option     *)
(* objects the callers pass.                                                *)
(***************************************************************************)
P_name == <<"name">>

P_bio == <<"info", ".", "bio">>

P_n == <<"info", ".", "n">>

P_tags == <<"info", ".", "tags">>

\* [{name:"a jo"}, {name:"a jo"}, null, {name:"a jo"}, {name:"xjo"}]
Data1 ==
  << ObjV(<<Prop(<<"name">>, StrV(<<"a", " ", "j", "o">>))>>),
     ObjV(<<Prop(<<"name">>, StrV(<<"a", " ", "j", "o">>))>>),
     NullV,
     ObjV(<<Prop(<<"name">>, StrV(<<"a", " ", "j", "o">>))>>),
     ObjV(<<Prop(<<"name">>, StrV(<<"x", "j", "o">>))>>) >>

\* [{name:"John", info:{bio:"Jo", n:42, tags:["jo"]}}, {name:"jo", info:null}]
Data2 ==
  << ObjV(<<Prop(<<"name">>, StrV(<<"J", "o", "h", "n">>)),
            Prop(<<"info">>,
                 ObjV(<<Prop(<<"bio">>, StrV(<<"J", "o">>)),
                        Prop(<<"n">>, NumV(42)),
                        Prop(<<"tags">>, ArrV(<<StrV(<<"j", "o">>)>>))>>))>>),
     ObjV(<<Prop(<<"name">>, StrV(<<"j", "o">>)),
            Prop(<<"info">>, NullV)>>) >>

CollectionIds == {1, 2}

Collection(c) == IF c = 1 THEN Data1 ELSE Data2

Queries ==
  { <<>>, <<" ">>, <<"j", "o">>, <<"J", "o", " ">>, <<"j", "o", "n">> }

NoOptions == [k \in {} |-> 0]

OptionObjects ==
  { NoOptions,
    [limit |-> 1],
    [fields |-> <<P_name>>],
    [fields |-> <<P_bio, P_name>>, caseSensitive |-> TRUE],
    [fields |-> <<P_n>>],
    [fields |-> <<P_tags>>],
    [fields |-> <<P_name, P_tags>>],
    [fieldWeights |-> (P_name :> RInt(2)), limit |-> 2] }

\* The calls made through the wrappers: searchItems, quickSearch and a
\* searcher made by createSearcher.
WrapperQueries == { <<"j", "o">> }

ItemsOptions == { [limit |-> 1] }

QuickSearchArguments == { NoOptions, [fields |-> <<P_name>>] }

SearcherConfigs == { [limit |-> 1] }

SearcherOverrides == { NoOptions, [limit |-> 2] }

(***************************************************************************)
(* State and actions.                                                       *)
(***************************************************************************)
VARIABLES
  stringProcessingCache,  \* insertion-ordered Map: sequence of [k, v]
  fieldDetectionCache,    \* WeakMap record -> detected field paths
  fieldStatsCache,        \* WeakMap collection -> Map field -> stats
  searchCallCount,
  last,                   \* the last call made and what it returned
  steps                   \* the number of calls made so far

vars == <<stringProcessingCache, fieldDetectionCache, fieldStatsCache,
          searchCallCount, last, steps>>

EngineState ==
  [sc |-> stringProcessingCache, dc |-> fieldDetectionCache,
   fc |-> fieldStatsCache, n |-> searchCallCount]

\* The state of a freshly loaded module.
ColdState == [sc |-> <<>>, dc |-> <<>>, fc |-> <<>>, n |-> 0]

Init ==
  /\ stringProcessingCache = <<>>
  /\ fieldDetectionCache = <<>>
  /\ fieldStatsCache = <<>>
  /\ searchCallCount = 0
  /\ last = [op |-> "none"]
  /\ steps = 0

\* The state after a call of search that had the outcome r.
Returned(c, query, options, r) ==
  /\ stringProcessingCache' = r.st.sc
  /\ fieldDetectionCache' = r.st.dc
  /\ fieldStatsCache' = r.st.fc
  /\ searchCallCount' = r.st.n
  /\ last' = [op |-> "search", data |-> c, query |-> query,
              options |-> options, error |-> r.error,
              results |-> r.results,
              statsCached |-> c \in DOMAIN fieldStatsCache]

\* A call of search(data, query, options).
Search(c, query, options) ==
  /\ steps < MaxSteps
  /\ steps' = steps + 1
  /\ Returned(c, query, options,
              search(EngineState, c, Collection(c), query, options))

\* The state after a wrapper call that had the outcome r.
ReturnedFrom(call, r) ==
  /\ stringProcessingCache' = r.st.sc
  /\ fieldDetectionCache' = r.st.dc
  /\ fieldStatsCache' = r.st.fc
  /\ searchCallCount' = r.st.n
  /\ last' = [error |-> r.error, results |-> r.results] @@ call

\* A call of searchItems(data, query, options).
SearchItems(c, query, options) ==
  /\ steps < MaxSteps
  /\ steps' = steps + 1
  /\ ReturnedFrom([op |-> "searchItems", data |-> c, query |-> query,
                   options |-> options],
                  searchItems(EngineState, c, Collection(c), query, options))

\* A call of quickSearch(data, query, fields).
QuickSearch(c, query, args) ==
  /\ steps < MaxSteps
  /\ steps' = steps + 1
  /\ ReturnedFrom([op |-> "quickSearch", data |-> c, query |-> query,
                   args |-> args],
                  quickSearch(EngineState, c, Collection(c), query, args))

\* A call of the function createSearcher(config) returned.
CallSearcher(config, c, query, overrides) ==
  /\ steps < MaxSteps
  /\ steps' = steps + 1
  /\ ReturnedFrom([op |-> "searcher", data |-> c, query |-> query,
                   config |-> config, overrides |-> overrides],
                  createSearcher(config, EngineState, c, Collection(c), query,
                                 overrides))

\* clearSearchCaches that leaves the counter as it is.
clearSearchCachesKeepsCounter ==
  /\ steps < MaxSteps
  /\ steps' = steps + 1
  /\ stringProcessingCache' = <<>>
  /\ last' = [op |-> "clearSearchCaches"]
  /\ UNCHANGED <<fieldDetectionCache, fieldStatsCache, searchCallCount>>

clearSearchCaches ==
  /\ steps < MaxSteps
  /\ steps' = steps + 1
  /\ stringProcessingCache' = <<>>
  /\ searchCallCount' = 0
  /\ last' = [op |-> "clearSearchCaches"]
  /\ UNCHANGED <<fieldDetectionCache, fieldStatsCache>>

getCacheStats ==
  /\ steps < MaxSteps
  /\ steps' = steps + 1
  /\ last' = [op |-> "getCacheStats",
              stringProcessingCacheSize |-> Len(stringProcessingCache),
              searchCallCount |-> searchCallCount]
  /\ UNCHANGED <<stringProcessingCache, fieldDetectionCache, fieldStatsCache,
                 searchCallCount>>

Next ==
  \/ \E c \in CollectionIds, query \in Queries, options \in OptionObjects :
       Search(c, query, options)
  \/ \E c \in CollectionIds, query \in WrapperQueries, options \in ItemsOptions :
       SearchItems(c, query, options)
  \/ \E c \in CollectionIds, query \in WrapperQueries, args \in QuickSearchArguments :
       QuickSearch(c, query, args)
  \/ \E config \in SearcherConfigs, c \in CollectionIds, query \in WrapperQueries,
        overrides \in SearcherOverrides :
       CallSearcher(config, c, query, overrides)
  \/ clearSearchCaches
  \/ getCacheStats

Spec == Init /\ [][Next]_vars

(***************************************************************************)
(* Properties of search.                                                    *)
(***************************************************************************)
IsSearch == last.op = "search"

\* A query that is empty or made of whitespace only.
IsBlank(query) == \A i \in 1..Len(query) : IsSpace(query[i])

\* The query of the last search is non-empty after trimming.
NonEmptyQuery == ~IsBlank(last.query)

\* The limit the last search ran with.
EffectiveLimit == OptOrDefault(last.options, "limit")

\* options with one key set (or replaced)
WithOpt(options, key, val) ==
  [k \in DOMAIN options \cup {key} |-> IF k = key THEN val ELSE options[k]]

\* What the call would return in a freshly loaded module.
ColdSearch(c, query, options) == search(ColdState, c, Collection(c), query, options)

\* The field set a search on collection c with these options uses.
SearchFieldsOf(c, options) ==
  IF HasOpt(options, "fields") THEN options.fields
  ELSE IF Len(Collection(c)) > 0 THEN detectWalk(Collection(c)[1], <<>>, DetectMaxDepth)
  ELSE <<>>

\* C1: a search returns what the same call returns on cold caches (same
\* outcome, same records, order, scores and matches), whatever calls
\* preceded it.
C1_DeterministicAcrossCacheStates ==
  IsSearch =>
    LET cold == ColdSearch(last.data, last.query, last.options)
    IN  last.error = cold.error /\ last.results = cold.results

\* C2: with a limit N >= 1 and a non-empty query, search returns the first N
\* entries of what the same call with limit 0 returns from the same state.
C2_LimitIsTopN ==
  [][ (last'.op = "search" /\ trim(last'.query) # <<>>
         /\ OptOrDefault(last'.options, "limit") >= 1)
      => LET unbounded == search(EngineState, last'.data, Collection(last'.data),
                                 last'.query, WithOpt(last'.options, "limit", 0))
         IN  /\ last'.error = unbounded.error
             /\ last'.results =
                  Slice(unbounded.results, OptOrDefault(last'.options, "limit")) ]_vars

\* C3: in the results of a non-empty query, scores never increase along the
\* sequence, and among equal scores the summed lengths of the matched values
\* never decrease.
C3_RankingOrder ==
  (IsSearch /\ NonEmptyQuery) =>
    \A i, j \in 1..Len(last.results) :
      i < j =>
        /\ RLeq(last.results[j].score, last.results[i].score)
        /\ (last.results[i].score = last.results[j].score
              => TotalLength(last.results[i].matches)
                   <= TotalLength(last.results[j].matches))

\* A ranked result in which the tie-break reordered the scan order.
C3_Witness ==
  /\ IsSearch /\ NonEmptyQuery
  /\ \E i, j \in 1..Len(last.results) :
       /\ i < j
       /\ last.results[i].score = last.results[j].score
       /\ TotalLength(last.results[i].matches) < TotalLength(last.results[j].matches)
       /\ last.results[i].item > last.results[j].item

\* C4 as stated: with a limit N >= 1, search returns at most N results for
\* every query string.
C4_LimitBoundsLength_AnyQuery ==
  (IsSearch /\ EffectiveLimit >= 1) => Len(last.results) <= EffectiveLimit

\* C4 amended: with a limit N >= 1 and a query that is non-empty after
\* trimming, search returns at most N results.
C4_LimitBoundsLength ==
  (IsSearch /\ NonEmptyQuery /\ EffectiveLimit >= 1)
    => Len(last.results) <= EffectiveLimit

\* A limited search that truncated: more records match than the limit allows.
C4_Witness ==
  /\ IsSearch /\ NonEmptyQuery /\ last.error = "none"
  /\ EffectiveLimit >= 1
  /\ Len(last.results) = EffectiveLimit
  /\ Len(ColdSearch(last.data, last.query,
                    WithOpt(last.options, "limit", 0)).results) > EffectiveLimit

\* C8: an empty or whitespace-only query returns one Result per element, in
\* collection order, with score 0 and no matches, and the call detects no
\* fields, computes no statistics and processes no string.
C8_EmptyQueryPassThrough ==
  [][ (last'.op = "search" /\ IsBlank(last'.query))
      => /\ last'.error = "none"
         /\ Len(last'.results) = Len(Collection(last'.data))
         /\ \A i \in 1..Len(last'.results) :
              last'.results[i] = [item |-> i, score |-> RInt(0), matches |-> <<>>]
         /\ fieldDetectionCache' = fieldDetectionCache
         /\ fieldStatsCache' = fieldStatsCache
         /\ Range(stringProcessingCache') \subseteq Range(stringProcessingCache) ]_vars

\* A whitespace-only query was passed through on the collection with a null
\* element.
C8_Witness ==
  /\ IsSearch
  /\ last.query = <<" ">>
  /\ \E i \in 1..Len(Collection(last.data)) : Collection(last.data)[i] = NullV
  /\ Len(last.results) = Len(Collection(last.data))

\* C9: every searched path resolves, on every record, to a string (empty when
\* absent), and search completes without an error.
C9_FieldResolutionNeverRaises ==
  (IsSearch /\ NonEmptyQuery) =>
    /\ last.error = "none"
    /\ LET data == Collection(last.data)
           searchFields == SearchFieldsOf(last.data, last.options)
       IN  \A i \in 1..Len(data), k \in 1..Len(searchFields) :
             getNestedValue(data[i], searchFields[k]).t = "string"

\* C10: a search on a collection whose statistics were cached by a search
\* with another field set scores every match of a field without explicit
\* weight with the weight inferred for that field from the collection.
C10_StatsPerFieldSet ==
  (IsSearch /\ NonEmptyQuery /\ last.error = "none" /\ last.statsCached
     /\ DOMAIN fieldStatsCache[last.data]
          # Range(SearchFieldsOf(last.data, last.options)))
  => \A i \in 1..Len(last.results) :
       \A k \in 1..Len(last.results[i].matches) :
         LET m == last.results[i].matches[k]
             inferred == calculateFieldStats(Collection(last.data), m.field).weight
             searchOptions ==
               [fuzzyThreshold |-> OptOrDefault(last.options, "fuzzyThreshold"),
                minFuzzyLength |-> OptOrDefault(last.options, "minFuzzyLength"),
                caseSensitive |-> OptOrDefault(last.options, "caseSensitive")]
         IN  (m.value.t = "string"
                /\ m.field \notin DOMAIN OptOrDefault(last.options, "fieldWeights"))
             => m.score = calculateFieldScore(<<>>, m.value, trim(last.query),
                                              inferred, searchOptions).match.score

\* The scoring options a search with these options runs with.
SearchOptionsOf(options) ==
  [fuzzyThreshold |-> OptOrDefault(options, "fuzzyThreshold"),
   minFuzzyLength |-> OptOrDefault(options, "minFuzzyLength"),
   caseSensitive |-> OptOrDefault(options, "caseSensitive")]

\* The score of match m of the last search, had its field the weight w.
ScoreUnderWeight(m, w) ==
  calculateFieldScore(<<>>, m.value, trim(last.query), w,
                      SearchOptionsOf(last.options)).match.score

\* C11: every match of a field that has an entry in fieldWeights is scored
\* with that entry as its weight, whatever weight the statistics infer for
\* the field.
C11_ExplicitWeightPrecedence ==
  (IsSearch /\ last.error = "none") =>
    \A i \in 1..Len(last.results) :
      \A k \in 1..Len(last.results[i].matches) :
        LET m == last.results[i].matches[k]
            fieldWeights == OptOrDefault(last.options, "fieldWeights")
        IN  (m.field \in DOMAIN fieldWeights /\ m.value.t = "string")
              => m.score = ScoreUnderWeight(m, fieldWeights[m.field])

\* A match of a field whose explicit weight differs from the weight the
\* statistics of the collection infer for it.
C11_Witness ==
  /\ IsSearch /\ last.error = "none"
  /\ \E i \in 1..Len(last.results) :
       \E k \in 1..Len(last.results[i].matches) :
         LET m == last.results[i].matches[k]
             fieldWeights == OptOrDefault(last.options, "fieldWeights")
         IN  /\ m.field \in DOMAIN fieldWeights
             /\ calculateFieldStats(Collection(last.data), m.field).weight
                  # fieldWeights[m.field]
             /\ m.score # ScoreUnderWeight(
                             m, calculateFieldStats(Collection(last.data), m.field).weight)

\* C12: a search that is not case sensitive returns what the same call, made
\* in the same state with the query in lower case, returns.
C12_QueryCaseIrrelevant ==
  [][ (last'.op = "search" /\ ~OptOrDefault(last'.options, "caseSensitive"))
      => LET lower == search(EngineState, last'.data, Collection(last'.data),
                             toLowerCase(last'.query), last'.options)
         IN  /\ last'.error = lower.error
             /\ last'.results = lower.results ]_vars

(***************************************************************************)
(* What it means for a field to match, stated without the scoring code.     *)
(***************************************************************************)
\* The least number of single-character insertions, deletions and
\* substitutions that turn a into b, by its defining recursion.
RECURSIVE EditDistance(_, _)
EditDistance(a, b) ==
  IF a = <<>> THEN Len(b)
  ELSE IF b = <<>> THEN Len(a)
  ELSE Min(Min(EditDistance(Tail(a), b) + 1,
               EditDistance(a, Tail(b)) + 1),
           EditDistance(Tail(a), Tail(b)) + (IF Head(a) = Head(b) THEN 0 ELSE 1))

\* The positions (0-based) at which q occurs in t.
Occurrences(t, q) ==
  {i \in 0..(Len(t) - Len(q)) : \A k \in 1..Len(q) : t[i + k] = q[k]}

\* The words of s: its maximal runs of non-space characters.
Words(s) ==
  { SubSeq(s, w[1], w[2]) :
      w \in { x \in (1..Len(s)) \X (1..Len(s)) :
                /\ x[1] <= x[2]
                /\ \A i \in x[1]..x[2] : ~IsSpace(s[i])
                /\ (x[1] = 1 \/ IsSpace(s[x[1] - 1]))
                /\ (x[2] = Len(s) \/ IsSpace(s[x[2] + 1])) } }

\* word is within the fuzzy threshold of query.
Similar(word, query, fuzzyThreshold) ==
  LET maxLength == Max(Len(word), Len(query))
  IN  RLeq(fuzzyThreshold, Rat(maxLength - EditDistance(word, query), maxLength))

\* The value, read as the string a template literal makes of it, has a
\* prefix, substring or qualifying fuzzy hit for the query.
FieldHit(value, query, searchOptions) ==
  /\ Truthy(value)
  /\ LET t == IF searchOptions.caseSensitive THEN TemplateString(value)
               ELSE toLowerCase(TemplateString(value))
         q == IF searchOptions.caseSensitive THEN query ELSE toLowerCase(query)
     IN  \/ Occurrences(t, q) # {}
         \/ /\ Len(q) >= searchOptions.minFuzzyLength
            /\ \E word \in Words(t) :
                 Len(word) >= 3 /\ Similar(word, q, searchOptions.fuzzyThreshold)

\* The searched fields of record i of collection c that hit, in field order.
HitFields(c, i, query, options) ==
  SelectSeq(SearchFieldsOf(c, options),
            LAMBDA f : FieldHit(getNestedValue(Collection(c)[i], f), trim(query),
                                SearchOptionsOf(options)))

\* The records of collection c with at least one searched field that hits.
MatchingRecords(c, query, options) ==
  { i \in 1..Len(Collection(c)) :
      Truthy(Collection(c)[i]) /\ HitFields(c, i, query, options) # <<>> }

RECURSIVE SumScores(_)
SumScores(matches) ==
  IF matches = <<>> THEN RInt(0)
  ELSE RAdd(Head(matches).score, SumScores(Tail(matches)))

\* The last call is a search with a non-empty query that returned.
ReturnedSearch == IsSearch /\ NonEmptyQuery /\ last.error = "none"

\* Every Result of the last search is well formed: its record has a field
\* that hits, it carries one match per searched field that hits, in field
\* order, each tagged with its field and holding the field's value, and its
\* score is the sum of the scores of its matches.
ResultsWellFormed ==
  \A i \in 1..Len(last.results) :
    LET r == last.results[i]
        hits == HitFields(last.data, r.item, last.query, last.options)
    IN  /\ r.item \in MatchingRecords(last.data, last.query, last.options)
        /\ r.matches # <<>>
        /\ Len(r.matches) = Len(hits)
        /\ \A k \in 1..Len(r.matches) :
             /\ r.matches[k].field = hits[k]
             /\ r.matches[k].value =
                  getNestedValue(Collection(last.data)[r.item], hits[k])
        /\ r.score = SumScores(r.matches)
        /\ \A j \in 1..Len(last.results) : j # i => last.results[j].item # r.item

\* The records of the Results of the last search.
ResultRecords == { last.results[i].item : i \in 1..Len(last.results) }

ClearedState == [EngineState EXCEPT !.sc = <<>>, !.n = 0]

\* C15: in every reachable state, every search call returns after
\* clearSearchCaches what it returns without it.
C15_ClearIsResultNeutral ==
  \A c \in CollectionIds, query \in Queries, options \in OptionObjects :
    LET kept == search(EngineState, c, Collection(c), query, options)
        cleared == search(ClearedState, c, Collection(c), query, options)
    IN  kept.error = cleared.error /\ kept.results = cleared.results

\* C16: the string cache never holds more than MAX_STRING_CACHE_SIZE
\* entries, and getCacheStats never reports more.
C16_StringCacheBounded ==
  /\ Len(stringProcessingCache) <= MAX_STRING_CACHE_SIZE
  /\ last.op = "getCacheStats"
       => last.stringProcessingCacheSize <= MAX_STRING_CACHE_SIZE

\* Evictions happened: an earlier search of the second collection on `name`
\* memoized "John" and "jo", the last search was on the first collection,
\* and neither string is still in the cache.
C16_Witness ==
  /\ IsSearch /\ last.data = 1 /\ last.error = "none"
  /\ 2 \in DOMAIN fieldStatsCache
  /\ DOMAIN fieldStatsCache[2] = {P_name}
  /\ Len(stringProcessingCache) >= MAX_STRING_CACHE_SIZE \div 2
  /\ ~CacheHas(stringProcessingCache, <<"J", "o", "h", "n">>)
  /\ ~CacheHas(stringProcessingCache, <<"j", "o">>)

\* The calls that run search.
SearchOps == {"search", "searchItems", "quickSearch", "searcher"}

\* C17: every call of search, searchItems, quickSearch or a created searcher
\* adds one to searchCallCount (empty queries and calls that raise
\* included), clearSearchCaches sets it to 0, and getCacheStats reports it
\* and leaves it; so the reported count is the number of search calls since
\* the last clear.
C17_CallCounter ==
  [][ /\ last'.op \in SearchOps => searchCallCount' = searchCallCount + 1
      /\ last'.op = "clearSearchCaches" => searchCallCount' = 0
      /\ last'.op = "getCacheStats"
           => /\ searchCallCount' = searchCallCount
              /\ last'.searchCallCount = searchCallCount ]_vars

\* A call through a wrapper was counted as the second call.
C17_Witness ==
  /\ last.op \in SearchOps \ {"search"}
  /\ searchCallCount = 2

\* C18: clearSearchCaches leaves the string cache empty and the counter 0,
\* a getCacheStats that follows it reports 0 and 0, and getCacheStats
\* reports the two numbers of the state and changes nothing.
C18_ClearResetsStats ==
  [][ /\ last'.op = "clearSearchCaches"
           => Len(stringProcessingCache') = 0 /\ searchCallCount' = 0
      /\ last'.op = "getCacheStats"
           => /\ last'.stringProcessingCacheSize = Len(stringProcessingCache)
              /\ last'.searchCallCount = searchCallCount
              /\ UNCHANGED <<stringProcessingCache, fieldDetectionCache,
                             fieldStatsCache, searchCallCount>>
      /\ (last.op = "clearSearchCaches" /\ last'.op = "getCacheStats")
           => /\ last'.stringProcessingCacheSize = 0
              /\ last'.searchCallCount = 0 ]_vars

\* clearSearchCaches ran after a search: the statistics of the searched
\* collection are still cached, the string cache and the counter are reset.
C18_Witness ==
  /\ last.op = "clearSearchCaches"
  /\ fieldStatsCache # <<>>
  /\ stringProcessingCache = <<>>
  /\ searchCallCount = 0

(***************************************************************************)
(* calculateFieldScore on its own: the arguments are drawn by the initial   *)
(* predicate and one action applies the function.                           *)
(***************************************************************************)
MaxTextLen == 4

MaxQueryLen == 3

\* The longest run of padding in front of a late match.
MaxPad == 120

ScoreAlphabet == {"a", "A", " "}

SeqsUpTo(A, n) == UNION {[1..k -> A] : k \in 0..n}

\* "aaa...aA" with k letters of padding: the match of "A" sits at position k.
Padded(k) == [i \in 1..(k + 1) |-> IF i <= k THEN "a" ELSE "A"]

ScoreTexts == SeqsUpTo(ScoreAlphabet, MaxTextLen)

ScoreQueries == SeqsUpTo(ScoreAlphabet, MaxQueryLen)

\* Every short text with every query, and the two late matches.
ScoreArguments ==
  (ScoreTexts \X ScoreQueries) \cup ({Padded(101), Padded(MaxPad)} \X {<<"A">>})

ScoreWeights == {RInt(1), Rat(5, 2)}

InitScore ==
  /\ stringProcessingCache = <<>>
  /\ fieldDetectionCache = <<>>
  /\ fieldStatsCache = <<>>
  /\ searchCallCount = 0
  /\ steps = 0
  /\ \E tq \in ScoreArguments, fieldWeight \in ScoreWeights, caseSensitive \in BOOLEAN :
       last = [op |-> "arguments", text |-> tq[1], query |-> tq[2],
               fieldWeight |-> fieldWeight, caseSensitive |-> caseSensitive]

\* A call of calculateFieldScore(text, query, fieldWeight, options).
ScoreCall ==
  /\ last.op = "arguments"
  /\ LET r == calculateFieldScore(stringProcessingCache, StrV(last.text), last.query,
                                  last.fieldWeight,
                                  [fuzzyThreshold |-> DEFAULT_FUZZY_THRESHOLD,
                                   minFuzzyLength |-> DEFAULT_MIN_FUZZY_LENGTH,
                                   caseSensitive |-> last.caseSensitive])
     IN  /\ stringProcessingCache' = r.cache
         /\ last' = [op |-> "calculateFieldScore", text |-> last.text,
                     query |-> last.query, fieldWeight |-> last.fieldWeight,
                     caseSensitive |-> last.caseSensitive, match |-> r.match]
  /\ steps' = steps + 1
  /\ UNCHANGED <<fieldDetectionCache, fieldStatsCache, searchCallCount>>

NextScore == ScoreCall

SpecScore == InitScore /\ [][NextScore]_vars

Scored == last.op = "calculateFieldScore" /\ last.text # <<>> /\ last.query # <<>>

\* The text and the query as they are compared.
NormText == IF last.caseSensitive THEN last.text ELSE toLowerCase(last.text)

NormQuery == IF last.caseSensitive THEN last.query ELSE toLowerCase(last.query)

\* C5: the match is exact-start exactly when the normalized text begins with
\* the normalized query, exact-contain exactly when the query occurs in it
\* but not at the start (position = first occurrence, > 0), and fuzzy only
\* when the query does not occur in it; normalization lower-cases both
\* strings unless caseSensitive.
C5_MatchClassification ==
  Scored =>
    LET occ == Occurrences(NormText, NormQuery) IN
    /\ (last.match.type = "exact-start") <=> (0 \in occ)
    /\ (last.match.type = "exact-contain") <=> (occ # {} /\ 0 \notin occ)
    /\ (last.match.type = "exact-contain")
         => /\ last.match.position \in occ
            /\ \A i \in occ : last.match.position <= i
            /\ last.match.position > 0
    /\ (last.match.type = "exact-start") => last.match.position = 0
    /\ (last.match.type = "fuzzy") => occ = {}

\* A case-insensitive comparison that found the query past the start of a
\* text holding an upper-case letter.
C5_Witness ==
  /\ Scored /\ ~last.caseSensitive
  /\ last.text # toLowerCase(last.text)
  /\ last.match.type = "exact-contain"
  /\ last.match.position > 0

\* C6: an exact-contain match never scores more than the exact-start match
\* of the same weight.
C6_PrefixDominance ==
  (Scored /\ last.match.type = "exact-contain") =>
    LET prefix == calculateFieldScore(<<>>, StrV(last.query), last.query,
                                      last.fieldWeight,
                                      [fuzzyThreshold |-> DEFAULT_FUZZY_THRESHOLD,
                                       minFuzzyLength |-> DEFAULT_MIN_FUZZY_LENGTH,
                                       caseSensitive |-> last.caseSensitive]).match
    IN  prefix.type = "exact-start" /\ RLeq(last.match.score, prefix.score)

\* C7: an exact-contain match scores at least the field weight.
C7_ScoreFloor ==
  (Scored /\ last.match.type = "exact-contain")
    => RLeq(last.fieldWeight, last.match.score)

\* An exact-contain match so late that the unfloored score is negative.
C7_Witness ==
  /\ Scored /\ last.match.type = "exact-contain"
  /\ last.match.position > 110
  /\ last.match.score = last.fieldWeight

\* The options of the calls of calculateFieldScore made by ScoreCall.
ScoreOptions(caseSensitive) ==
  [fuzzyThreshold |-> DEFAULT_FUZZY_THRESHOLD,
   minFuzzyLength |-> DEFAULT_MIN_FUZZY_LENGTH,
   caseSensitive |-> caseSensitive]

\* The match m, if it is an exact-contain match, scores at least `score`.
ContainScoresAtLeast(m, score) ==
  m.type = "exact-contain" => RLeq(score, m.score)

\* C24: for the same weight, every exact-contain match scores at least what
\* a fuzzy match scores, whatever the texts, the position of the occurrence
\* and the similarity.
C24_ContainDominatesFuzzy ==
  (Scored /\ last.match.type = "fuzzy") =>
    \A tq \in ScoreArguments :
      ContainScoresAtLeast(
        calculateFieldScore(<<>>, StrV(tq[1]), tq[2], last.fieldWeight,
                            ScoreOptions(last.caseSensitive)).match,
        last.match.score)

(***************************************************************************)
(* Field auto-detection: the initial predicate draws the first record of a  *)
(* two-record collection, and one action searches the collection without    *)
(* `fields`.  Every non-empty string in the records is "x" and the query is *)
(* "x", so every searched field of a record shows as a match.               *)
(***************************************************************************)
\* The deepest chain of nested objects below a property of the record.
MaxNesting == 3

DetectLeaves ==
  { StrV(<<"x">>), EmptyStr, NullV, NumV(7), ArrV(<<StrV(<<"x">>)>>) }

\* The leaves, and the objects {k: v} over values nested up to d deep.
RECURSIVE DetectValues(_)
DetectValues(d) ==
  IF d = 0 THEN DetectLeaves
  ELSE DetectLeaves \cup { ObjV(<<Prop(<<"k">>, v)>>) : v \in DetectValues(d - 1) }

\* The first records: {a: ..., b: ...}
DetectRecords ==
  { ObjV(<<Prop(<<"a">>, va), Prop(<<"b">>, vb)>>) :
      va \in DetectValues(MaxNesting), vb \in DetectValues(1) }

\* The identity of the collection searched: none of CollectionIds.
DetectCollectionId == Cardinality(CollectionIds) + 1

\* [record, {z: "x"}]
DetectCollection(record) == << record, ObjV(<<Prop(<<"z">>, StrV(<<"x">>))>>) >>

InitDetect ==
  /\ stringProcessingCache = <<>>
  /\ fieldDetectionCache = <<>>
  /\ fieldStatsCache = <<>>
  /\ searchCallCount = 0
  /\ steps = 0
  /\ \E record \in DetectRecords : last = [op |-> "arguments", record |-> record]

\* A call of search(data, "x") on the collection of the drawn record.
DetectSearch ==
  /\ last.op = "arguments"
  /\ steps' = steps + 1
  /\ ReturnedFrom([op |-> "autoDetect", record |-> last.record],
                  search(EngineState, DetectCollectionId,
                         DetectCollection(last.record), <<"x">>, NoOptions))

NextDetect == DetectSearch

SpecDetect == InitDetect /\ [][NextDetect]_vars

RECURSIVE Flatten(_)
Flatten(seqs) == IF seqs = <<>> THEN <<>> ELSE Head(seqs) \o Flatten(Tail(seqs))

NonEmptyString(v) == v.t = "string" /\ Len(v.s) > 0

\* Neither null nor an array.
NestedObject(v) == v.t = "object"

DottedPath(prefix, key) == prefix \o <<".">> \o key

\* The paths of three segments below the object at `prefix`.
PathsOfThree(obj, prefix) ==
  Flatten([i \in 1..Len(obj.e) |->
             IF NonEmptyString(obj.e[i].v) THEN <<DottedPath(prefix, obj.e[i].k)>>
             ELSE <<>>])

\* The paths of two and three segments below the object at `prefix`.
PathsOfTwo(obj, prefix) ==
  Flatten([i \in 1..Len(obj.e) |->
             IF NonEmptyString(obj.e[i].v) THEN <<DottedPath(prefix, obj.e[i].k)>>
             ELSE IF NestedObject(obj.e[i].v)
             THEN PathsOfThree(obj.e[i].v, DottedPath(prefix, obj.e[i].k))
             ELSE <<>>])

\* The paths of up to three segments of the record, in declaration order.
ExpectedFields(record) ==
  Flatten([i \in 1..Len(record.e) |->
             IF NonEmptyString(record.e[i].v) THEN <<record.e[i].k>>
             ELSE IF NestedObject(record.e[i].v)
             THEN PathsOfTwo(record.e[i].v, record.e[i].k)
             ELSE <<>>])

\* The fields of the matches of the Result of record i, in order (none when
\* the record has no Result).
MatchedFields(i) ==
  Flatten([j \in 1..Len(last.results) |->
             IF last.results[j].item = i
             THEN [k \in 1..Len(last.results[j].matches) |->
                     last.results[j].matches[k].field]
             ELSE <<>>])

\* C19: a search without `fields` searches exactly the paths of up to three
\* segments that lead, through nested objects that are neither null nor
\* arrays, to the non-empty strings of the first record, in declaration
\* order: these are the fields it caches for the record, the fields it
\* computes statistics for, and the fields that match on the first record;
\* the second record's own field is not searched.
C19_AutoDetectedFields ==
  last.op = "autoDetect" =>
    /\ last.error = "none"
    /\ fieldDetectionCache[<<DetectCollectionId, 1>>] = ExpectedFields(last.record)
    /\ DOMAIN fieldStatsCache[DetectCollectionId] = Range(ExpectedFields(last.record))
    /\ MatchedFields(1) = ExpectedFields(last.record)
    /\ MatchedFields(2) = <<>>

\* The first record holds strings at one and at three segments, both
\* searched, in declaration order.
C19_Witness ==
  /\ last.op = "autoDetect"
  /\ MatchedFields(1) = << <<"a", ".", "k", ".", "k">>, <<"b">> >>

(***************************************************************************)
(* levenshteinDistance on its own: the initial predicate draws the two      *)
(* strings and one action applies the function.                             *)
(***************************************************************************)
MaxLevLen == 3

LevAlphabet == {"a", "b"}

LevStrings == SeqsUpTo(LevAlphabet, MaxLevLen)

InitLev ==
  /\ stringProcessingCache = <<>>
  /\ fieldDetectionCache = <<>>
  /\ fieldStatsCache = <<>>
  /\ searchCallCount = 0
  /\ steps = 0
  /\ \E a \in LevStrings, b \in LevStrings :
       last = [op |-> "arguments", a |-> a, b |-> b]

\* A call of levenshteinDistance(a, b).
LevCall ==
  /\ last.op = "arguments"
  /\ steps' = steps + 1
  /\ last' = [op |-> "levenshteinDistance", a |-> last.a, b |-> last.b,
              distance |-> levenshteinDistance(last.a, last.b)]
  /\ UNCHANGED <<stringProcessingCache, fieldDetectionCache, fieldStatsCache,
                 searchCallCount>>

NextLev == LevCall

SpecLev == InitLev /\ [][NextLev]_vars

\* C20: levenshteinDistance(a, b) is the least number of single-character
\* insertions, deletions and substitutions that turn a into b, whichever of
\* the two is longer; it equals levenshteinDistance(b, a), and it is the
\* length of the other string when one is empty.
C20_EditDistance ==
  last.op = "levenshteinDistance" =>
    /\ last.distance = EditDistance(last.a, last.b)
    /\ last.distance = levenshteinDistance(last.b, last.a)
    /\ last.a = <<>> => last.distance = Len(last.b)
    /\ last.b = <<>> => last.distance = Len(last.a)

\* The first string is the longer one (the function swaps them) and the
\* distance takes a substitution besides the deletions.
C20_Witness ==
  /\ last.op = "levenshteinDistance"
  /\ Len(last.a) > Len(last.b) /\ Len(last.b) > 0
  /\ last.distance > Len(last.a) - Len(last.b)
  /\ last.distance < Len(last.a)

(***************************************************************************)
(* Collections with elements that are null or undefined: the initial        *)
(* predicate draws the elements of the collection and the options, and one  *)
(* action searches the collection for "jo".                                 *)
(***************************************************************************)
\* The number of elements of the collection drawn.
MaxHoles == 3

\* {name: "jo"}
R_jo == ObjV(<<Prop(<<"name">>, StrV(<<"j", "o">>))>>)

\* {name: "xx"}
R_xx == ObjV(<<Prop(<<"name">>, StrV(<<"x", "x">>))>>)

HoleElements == { NullV, UndefV, R_jo, R_xx }

HoleCollections == [1..MaxHoles -> HoleElements]

HoleOptions == { NoOptions, [fields |-> <<P_name>>] }

\* The identity of the collection searched: none of CollectionIds.
HoleCollectionId == Cardinality(CollectionIds) + 2

InitHoles ==
  /\ stringProcessingCache = <<>>
  /\ fieldDetectionCache = <<>>
  /\ fieldStatsCache = <<>>
  /\ searchCallCount = 0
  /\ steps = 0
  /\ \E data \in HoleCollections, options \in HoleOptions :
       last = [op |-> "arguments", data |-> data, options |-> options]

\* A call of search(data, "jo", options) on the collection drawn.
HoleSearch ==
  /\ last.op = "arguments"
  /\ steps' = steps + 1
  /\ ReturnedFrom([op |-> "searchHoles", data |-> last.data,
                   options |-> last.options],
                  search(EngineState, HoleCollectionId, last.data, <<"j", "o">>,
                         last.options))

NextHoles == HoleSearch

SpecHoles == InitHoles /\ [][NextHoles]_vars

\* The indices of the Results, in order.
ResultItems == [j \in 1..Len(last.results) |-> last.results[j].item]

\* C21: a search with a non-empty query on a collection that holds null or
\* undefined elements, at whatever positions, raises no error and returns no
\* Result for such an element; the elements after one are still scanned: with
\* `fields` given, every record that holds the query has its Result.
C21_NullElementsSkipped ==
  last.op = "searchHoles" =>
    /\ last.error = "none"
    /\ \A j \in 1..Len(last.results) : Truthy(last.data[last.results[j].item])
    /\ HasOpt(last.options, "fields") =>
         Range(ResultItems) = {i \in 1..Len(last.data) : last.data[i] = R_jo}

\* Null first, undefined last, and the record between them is returned.
C21_Witness ==
  /\ last.op = "searchHoles"
  /\ HasOpt(last.options, "fields")
  /\ last.data[1] = NullV /\ last.data[Len(last.data)] = UndefV
  /\ Len(last.results) = 1 /\ last.data[last.results[1].item] = R_jo

(***************************************************************************)
(* A searcher made by createSearcher: the initial predicate draws the       *)
(* configuration the searcher closes over, and the action invokes the       *)
(* searcher, which reads the configuration it holds.                        *)
(***************************************************************************)
BaseConfigs ==
  { NoOptions,
    [limit |-> 1],
    [fieldWeights |-> (P_name :> RInt(2))],
    [fields |-> <<P_name>>, fieldWeights |-> (P_name :> RInt(3)), limit |-> 2] }

InvocationOverrides ==
  { NoOptions,
    [limit |-> 2],
    [fieldWeights |-> (P_bio :> RInt(3))],
    [fields |-> <<P_bio, P_name>>],
    [caseSensitive |-> TRUE] }

\* createSearcher(config): the searcher exists and no call was made.
InitSearcher ==
  /\ stringProcessingCache = <<>>
  /\ fieldDetectionCache = <<>>
  /\ fieldStatsCache = <<>>
  /\ searchCallCount = 0
  /\ steps = 0
  /\ \E config \in BaseConfigs : last = [op |-> "createSearcher", config |-> config]

\* An invocation searcher(data, query, overrides) of the searcher made.
InvokeSearcher ==
  \E c \in CollectionIds, query \in WrapperQueries,
     overrides \in InvocationOverrides :
    CallSearcher(last.config, c, query, overrides)

NextSearcher == InvokeSearcher

SpecSearcher == InitSearcher /\ [][NextSearcher]_vars

\* Each key from overrides when it is present there, otherwise from config.
KeyWiseMerge(config, overrides) ==
  [k \in DOMAIN config \cup DOMAIN overrides |->
     IF k \in DOMAIN overrides THEN overrides[k] ELSE config[k]]

\* The invocation that was just made left what the call r of search leaves.
InvocationAgrees(r) ==
  /\ last'.error = r.error
  /\ last'.results = r.results
  /\ stringProcessingCache' = r.st.sc
  /\ fieldDetectionCache' = r.st.dc
  /\ fieldStatsCache' = r.st.fc
  /\ searchCallCount' = r.st.n

\* C22: an invocation searcher(data, query, overrides) of createSearcher(config)
\* returns what search(data, query, merged) returns from the same state, where
\* merged takes each key from overrides when it is present there and from
\* config otherwise (a fieldWeights of overrides replaces that of config as a
\* whole), and the searcher holds the same config afterwards.
C22_SearcherMerge ==
  [][ last'.op = "searcher" =>
        /\ last'.config = last.config
        /\ InvocationAgrees(search(EngineState, last'.data, Collection(last'.data),
                                   last'.query,
                                   KeyWiseMerge(last.config, last'.overrides))) ]_vars

\* A second invocation whose fieldWeights replaced those of the config: the
\* name match of record 1 of collection 2 is scored without the weight 2.
C22_Witness ==
  /\ last.op = "searcher" /\ steps = 2 /\ last.data = 2
  /\ last.config = [fieldWeights |-> (P_name :> RInt(2))]
  /\ last.overrides = [fieldWeights |-> (P_bio :> RInt(3))]
  /\ \E j \in 1..Len(last.results) : \E k \in 1..Len(last.results[j].matches) :
       /\ last.results[j].matches[k].field = P_name
       /\ last.results[j].matches[k].score
            # calculateFieldScore(<<>>, last.results[j].matches[k].value,
                                  trim(last.query), RInt(2),
                                  SearchOptionsOf(last.overrides)).match.score

(***************************************************************************)
(* The convenience entry points on their own: calls of searchItems and of   *)
(* quickSearch, from the cold state on.                                     *)
(***************************************************************************)
ItemsQueries == { <<>>, <<"j", "o">>, <<"j", "o", "n">> }

ItemsOptionObjects ==
  { NoOptions,
    [limit |-> 1],
    [fields |-> <<P_tags>>],
    [fields |-> <<P_bio, P_name>>, caseSensitive |-> TRUE] }

QuickSearchFields == { NoOptions, [fields |-> <<P_name>>], [fields |-> <<P_tags>>] }

NextItems ==
  \/ \E c \in CollectionIds, query \in ItemsQueries, options \in ItemsOptionObjects :
       SearchItems(c, query, options)
  \/ \E c \in CollectionIds, query \in ItemsQueries, args \in QuickSearchFields :
       QuickSearch(c, query, args)

SpecItems == Init /\ [][NextItems]_vars

\* The call that was just made returned the items of the Results of the call
\* r of search, in their order, raised what r raised and left what r leaves.
ReturnedItemsOf(r) ==
  /\ last'.error = r.error
  /\ Len(last'.results) = Len(r.results)
  /\ \A j \in 1..Len(r.results) : last'.results[j] = r.results[j].item
  /\ stringProcessingCache' = r.st.sc
  /\ fieldDetectionCache' = r.st.dc
  /\ fieldStatsCache' = r.st.fc
  /\ searchCallCount' = r.st.n

\* The options the specification gives for quickSearch(data, q, fields).
DocumentedQuickOptions(args) ==
  args @@ [fuzzyThreshold |-> Rat(7, 10), minFuzzyLength |-> 3, limit |-> 100,
           caseSensitive |-> FALSE]

\* C23: searchItems(data, q, opts) returns the items of the Results of
\* search(data, q, opts) in the same order, and quickSearch(data, q, fields)
\* returns the items of the Results of search with `fields` and fuzzyThreshold
\* 0.7, minFuzzyLength 3, limit 100, caseSensitive false and no explicit
\* weights; neither does anything else.
C23_ConvenienceEntryPoints ==
  [][ /\ last'.op = "searchItems" =>
           ReturnedItemsOf(search(EngineState, last'.data, Collection(last'.data),
                                  last'.query, last'.options))
      /\ last'.op = "quickSearch" =>
           ReturnedItemsOf(search(EngineState, last'.data, Collection(last'.data),
                                  last'.query,
                                  DocumentedQuickOptions(last'.args))) ]_vars

\* quickSearch returned several records in ranking order, which is not the
\* order of the collection.
C23_Witness ==
  /\ last.op = "quickSearch"
  /\ Len(last.results) >= 2
  /\ last.results[1] > last.results[2]

(***************************************************************************)
(* search called with a `data` argument that need not be an array: the      *)
(* initial predicate draws the argument as a value, the query and the       *)
(* options, and one action makes the call.                                  *)
(***************************************************************************)
\* The outcome of a call that raised a TypeError before the item loop: the
\* counter and the periodic cleanup have run.
RaisedAtEntry(st, sc0) ==
  [st |-> [st EXCEPT !.n = st.n + 1, !.sc = sc0],
   error |-> "TypeError", results |-> <<>>]

\* search(data, query, options) for a value `data`, after the counter and
\* the cleanup.  null and undefined have no `map` and no `length`; a number
\* or a string has no `map` and is no WeakMap key for fieldStatsCache.set;
\* an object that is no array has no `map`, and its `length` is undefined,
\* so that no field is detected, no element is sampled and no item is
\* scanned, as for an empty array.
searchValueBody(st, c, data, query, options, sc0) ==
  CASE data.t = "array" -> searchBody(st, c, data.a, query, options, sc0)
    [] data.t = "object" ->
         IF trim(query) = <<>> THEN RaisedAtEntry(st, sc0)
         ELSE searchBody(st, c, <<>>, query, options, sc0)
    [] OTHER -> RaisedAtEntry(st, sc0)

searchValue(st, c, data, query, options) ==
  searchValueBody(st, c, data, query, options, PeriodicCleanup(st.sc, st.n + 1))

DataArguments ==
  { NullV, UndefV, NumV(5), StrV(<<"j", "o">>), ObjV(<<>>), R_jo,
    ArrV(<<>>), ArrV(<<R_jo, R_xx>>) }

DataQueries == { <<>>, <<"j", "o">>, <<"x", "x">> }

DataOptions == { NoOptions, [fields |-> <<P_name>>], [limit |-> 1] }

\* The identity of the argument, when it is an object.
DataCollectionId == Cardinality(CollectionIds) + 3

InitData ==
  /\ stringProcessingCache = <<>>
  /\ fieldDetectionCache = <<>>
  /\ fieldStatsCache = <<>>
  /\ searchCallCount = 0
  /\ steps = 0
  /\ \E data \in DataArguments, query \in DataQueries, options \in DataOptions :
       last = [op |-> "arguments", data |-> data, query |-> query,
               options |-> options]

\* A call of search(data, query, options) with the arguments drawn.
DataSearch ==
  /\ last.op = "arguments"
  /\ steps' = steps + 1
  /\ ReturnedFrom([op |-> "searchValue", data |-> last.data, query |-> last.query,
                   options |-> last.options],
                  searchValue(EngineState, DataCollectionId, last.data, last.query,
                              last.options))

NextData == DataSearch

SpecData == InitData /\ [][NextData]_vars

\* C25: a call of search whose `data` is not a collection fails with the
\* error kind InvalidInput, and search surfaces no other kind of error.
C25_MalformedInputRejected ==
  last.op = "searchValue" =>
    /\ last.error \in {"none", "InvalidInput"}
    /\ last.data.t # "array" => last.error = "InvalidInput"

(***************************************************************************)
(* The caller's objects: the initial predicate draws a collection and an    *)
(* options object, which the caller keeps and passes to one entry point     *)
(* after the other.  `last` carries the two objects as the calls leave      *)
(* them; a Result refers to a record by its index in the collection.        *)
(***************************************************************************)
CallerOptions ==
  { NoOptions,
    [fields |-> <<P_name>>],
    [fields |-> <<P_tags>>],
    [fieldWeights |-> (P_name :> RInt(2)), limit |-> 1] }

CallerQueries == { <<>>, <<"j", "o">> }

\* The call of an entry point with the caller's objects: search and
\* searchItems take the options object, createSearcher closes over it, and
\* quickSearch takes its `fields`.
EntryCall(entry, st, c, data, query, options) ==
  CASE entry = "search" -> search(st, c, data, query, options)
    [] entry = "searchItems" -> searchItems(st, c, data, query, options)
    [] entry = "searcher" -> createSearcher(options, st, c, data, query, NoOptions)
    [] entry = "quickSearch" ->
         quickSearch(st, c, data, query,
                     IF HasOpt(options, "fields") THEN [fields |-> options.fields]
                     ELSE NoOptions)

InitCaller ==
  /\ stringProcessingCache = <<>>
  /\ fieldDetectionCache = <<>>
  /\ fieldStatsCache = <<>>
  /\ searchCallCount = 0
  /\ steps = 0
  /\ \E c \in CollectionIds, options \in CallerOptions :
       last = [op |-> "objects", c |-> c, data |-> Collection(c),
               options |-> options]

\* A call that reverses the caller's array in place.
CallerCallReversesData(entry, query) ==
  /\ steps < MaxSteps
  /\ steps' = steps + 1
  /\ ReturnedFrom([op |-> entry, c |-> last.c,
                   data |-> [i \in 1..Len(last.data) |->
                               last.data[Len(last.data) + 1 - i]],
                   options |-> last.options, query |-> query],
                  EntryCall(entry, EngineState, last.c, last.data, query,
                            last.options))

\* A call of an entry point with the caller's objects.  No statement of the
\* entry points assigns to the collection, to a record or to the options:
\* the results, the matches and the merged options are new objects.
CallerCall(entry, query) ==
  /\ steps < MaxSteps
  /\ steps' = steps + 1
  /\ ReturnedFrom([op |-> entry, c |-> last.c, data |-> last.data,
                   options |-> last.options, query |-> query],
                  EntryCall(entry, EngineState, last.c, last.data, query,
                            last.options))

NextCaller == \E entry \in SearchOps, query \in CallerQueries : CallerCall(entry, query)

SpecCaller == InitCaller /\ [][NextCaller]_vars

\* The records the call just made returned, as indices into the collection.
ReturnedReferences ==
  IF last'.op \in {"searchItems", "quickSearch"} THEN Range(last'.results)
  ELSE {last'.results[j].item : j \in 1..Len(last'.results)}

MaxWordLen == 3

FuzzyAlphabet == {"a", "b"}

FuzzyWords == UNION {[1..k -> FuzzyAlphabet] : k \in 1..MaxWordLen}

SecondWords == { <<"b">>, <<"a", "b", "b">> }

\* One word, one word between spaces, and two words one or two spaces apart.
FuzzyTexts ==
  FuzzyWords
    \cup { <<" ">> \o w \o <<" ">> : w \in FuzzyWords }
    \cup { w \o <<" ">> \o v : w \in FuzzyWords, v \in SecondWords }
    \cup { w \o <<" ", " ">> \o v : w \in FuzzyWords, v \in SecondWords }

\* The queries, up to the longer of the minimum lengths drawn.
FuzzyQueries ==
  UNION {[1..k -> FuzzyAlphabet] : k \in 2..(DEFAULT_MIN_FUZZY_LENGTH + 1)}

FuzzyThresholds == { Rat(1, 3), DEFAULT_FUZZY_THRESHOLD }

MinFuzzyLengths == { DEFAULT_MIN_FUZZY_LENGTH, DEFAULT_MIN_FUZZY_LENGTH + 1 }

FuzzyWeight == Rat(5, 2)

InitFuzzy ==
  /\ stringProcessingCache = <<>>
  /\ fieldDetectionCache = <<>>
  /\ fieldStatsCache = <<>>
  /\ searchCallCount = 0
  /\ steps = 0
  /\ \E text \in FuzzyTexts, query \in FuzzyQueries,
        fuzzyThreshold \in FuzzyThresholds, minFuzzyLength \in MinFuzzyLengths :
       last = [op |-> "arguments", text |-> text, query |-> query,
               options |-> [fuzzyThreshold |-> fuzzyThreshold,
                            minFuzzyLength |-> minFuzzyLength,
                            caseSensitive |-> FALSE]]

\* The state after the call of calculateFieldScore that had the outcome r.
FuzzyReturned(r) ==
  /\ stringProcessingCache' = r.cache
  /\ last' = [op |-> "fuzzyScore", text |-> last.text, query |-> last.query,
              options |-> last.options, match |-> r.match]

\* A call of calculateFieldScore(text, query, fieldWeight, options).
FuzzyCall ==
  /\ last.op = "arguments"
  /\ steps' = steps + 1
  /\ FuzzyReturned(calculateFieldScore(stringProcessingCache, StrV(last.text),
                                       last.query, FuzzyWeight, last.options))
  /\ UNCHANGED <<fieldDetectionCache, fieldStatsCache, searchCallCount>>

NextFuzzy == FuzzyCall

SpecFuzzy == InitFuzzy /\ [][NextFuzzy]_vars

\* (maxLen - editDistance(word, query)) / maxLen
SimilarityOf(word, query) ==
  Rat(Max(Len(word), Len(query)) - EditDistance(word, query),
      Max(Len(word), Len(query)))

\* The words of the last text of length >= 3 whose similarity to the query
\* reaches the threshold.
QualifyingWords ==
  {w \in Words(last.text) :
     Len(w) >= 3 /\ RLeq(last.options.fuzzyThreshold, SimilarityOf(w, last.query))}

\* weight * similarity * (2 + max(1, 50 / len(text)))
DocumentedFuzzyScore(word) ==
  RMul(RMul(FuzzyWeight, SimilarityOf(word, last.query)),
       RAdd(RInt(2), RMax(RInt(1), Rat(50, Len(last.text)))))

\* C27: for a text that does not contain the query, calculateFieldScore
\* returns a match, of type fuzzy, exactly when the query is at least
\* minFuzzyLength long and some whitespace-delimited word of the text of
\* length >= 3 has similarity (maxLen - editDistance) / maxLen >=
\* fuzzyThreshold; every similarity lies in [0, 1]; and the score is
\* weight * similarity * (2 + max(1, 50 / len(text))) of a qualifying word
\* that scores best.
C27_FuzzyCondition ==
  (last.op = "fuzzyScore" /\ Occurrences(last.text, last.query) = {}) =>
    /\ (last.match # NoMatch)
         <=> /\ Len(last.query) >= last.options.minFuzzyLength
             /\ QualifyingWords # {}
    /\ \A w \in Words(last.text) :
         /\ RLeq(RInt(0), SimilarityOf(w, last.query))
         /\ RLeq(SimilarityOf(w, last.query), RInt(1))
    /\ (last.match # NoMatch) =>
         /\ last.match.type = "fuzzy"
         /\ \E w \in QualifyingWords : last.match.score = DocumentedFuzzyScore(w)
         /\ \A w \in QualifyingWords :
              RLeq(DocumentedFuzzyScore(w), last.match.score)

\* Two words qualify with different similarities, and the better one is the
\* second.
C27_Witness ==
  /\ last.op = "fuzzyScore"
  /\ last.match # NoMatch /\ last.match.type = "fuzzy"
  /\ \E w \in QualifyingWords, v \in QualifyingWords :
       RLess(DocumentedFuzzyScore(w), DocumentedFuzzyScore(v))
  /\ \E n \in 1..Len(last.text) :
       /\ IsSpace(last.text[n])
       /\ last.match.score
            = DocumentedFuzzyScore(SubSeq(last.text, n + 1, Len(last.text)))

(***************************************************************************)
(* The inferred weight: the initial predicate draws a field and the values  *)
(* the records of a collection hold at it, among them strings around the    *)
(* length thresholds, and one action searches that field for "x" on a cold  *)
(* cache.  The collection is one record longer than the sample.             *)
(***************************************************************************)
\* "xx...x" of length k
Xs(k) == [i \in 1..k |-> "x"]

\* The values of the first two records: no value, an empty string, a
\* number, and strings below, between and above the thresholds.
SampleValues ==
  { UndefV, EmptyStr, NumV(7), StrV(Xs(40)), StrV(Xs(60)), StrV(Xs(100)),
    StrV(Xs(500)) }

\* The value of each further record of the sample.
FillerValues == { UndefV, StrV(Xs(100)) }

\* The value of the record after the sample.
BeyondValues == { UndefV, StrV(Xs(500)) }

StatsFields ==
  { <<"name">>, <<"Title">>, <<"summary">>, <<"text">>, <<"x">>,
    <<"info", ".", "Name">> }

\* A record that holds v at fieldPath (of one or two segments), or does not
\* have the property when v is undefined.
RecordWith(fieldPath, v) ==
  IF v = UndefV THEN ObjV(<<>>)
  ELSE IF Len(split(fieldPath)) = 1 THEN ObjV(<<Prop(fieldPath, v)>>)
  ELSE ObjV(<<Prop(split(fieldPath)[1], ObjV(<<Prop(split(fieldPath)[2], v)>>))>>)

\* The values of the records of the collection: v1, v2, the filler up to the
\* end of the sample, and the value after it.
StatsValues(v1, v2, filler, beyond) ==
  [i \in 1..(SampleCap + 1) |->
     IF i = 1 THEN v1 ELSE IF i = 2 THEN v2
     ELSE IF i <= SampleCap THEN filler ELSE beyond]

StatsCollectionId == Cardinality(CollectionIds) + 4

InitStats ==
  /\ stringProcessingCache = <<>>
  /\ fieldDetectionCache = <<>>
  /\ fieldStatsCache = <<>>
  /\ searchCallCount = 0
  /\ steps = 0
  /\ \E field \in StatsFields, v1 \in SampleValues, v2 \in SampleValues,
        filler \in FillerValues, beyond \in BeyondValues :
       last = [op |-> "arguments", field |-> field,
               values |-> StatsValues(v1, v2, filler, beyond)]

\* A call of search(data, "x", {fields: [field]}) on the collection drawn.
StatsSearch ==
  /\ last.op = "arguments"
  /\ steps' = steps + 1
  /\ ReturnedFrom([op |-> "inferWeight", field |-> last.field,
                   values |-> last.values],
                  search(EngineState, StatsCollectionId,
                         [i \in 1..Len(last.values) |->
                            RecordWith(last.field, last.values[i])],
                         <<"x">>, [fields |-> <<last.field>>]))

NextStats == StatsSearch

SpecStats == InitStats /\ [][NextStats]_vars

\* The indices, among the first SampleCap records, of the non-empty strings.
SampledStrings ==
  {i \in 1..Min(Len(last.values), SampleCap) :
     last.values[i].t = "string" /\ last.values[i].s # <<>>}

RECURSIVE SumOfLengths(_)
SumOfLengths(S) ==
  IF S = {} THEN 0
  ELSE LET i == CHOOSE i \in S : TRUE
       IN  Len(last.values[i].s) + SumOfLengths(S \ {i})

DocumentedAverage ==
  IF SampledStrings = {} THEN RInt(0)
  ELSE Rat(SumOfLengths(SampledStrings), Cardinality(SampledStrings))

\* The last segment of the field of the last call, in lower case.
DocumentedSegment ==
  CASE last.field = <<"Title">> -> "title"
    [] last.field = <<"info", ".", "Name">> -> "name"
    [] OTHER -> last.field[Len(last.field)]

DocumentedBaseWeight ==
  IF DocumentedSegment \in {"title", "name", "heading"} THEN RInt(5)
  ELSE IF DocumentedSegment \in {"description", "summary", "subtitle"} THEN RInt(3)
  ELSE RInt(1)

DocumentedLengthWeight ==
  IF RLess(DocumentedAverage, RInt(50)) THEN RInt(2)
  ELSE IF RLess(DocumentedAverage, RInt(100)) THEN Rat(3, 2)
  ELSE IF RLess(DocumentedAverage, RInt(300)) THEN Rat(6, 5)
  ELSE RInt(1)

\* C28: on a cold cache the weight of a field without an explicit weight is
\* baseWeight * lengthWeight: baseWeight 5 / 3 / 1 by the last path segment
\* in lower case, lengthWeight 2 / 1.5 / 1.2 / 1 for an average length
\* < 50 / < 100 / < 300 / otherwise, the average taken over the non-empty
\* strings of the field among the first SampleCap records (0 when there is
\* none).  It is the weight cached for the field, and every match (each an
\* exact-start match, 20 times the weight) is scored with it.
C28_InferredWeight ==
  last.op = "inferWeight" =>
    /\ fieldStatsCache[StatsCollectionId][last.field].avgLength = DocumentedAverage
    /\ fieldStatsCache[StatsCollectionId][last.field].weight
         = RMul(DocumentedBaseWeight, DocumentedLengthWeight)
    /\ \A j \in 1..Len(last.results) : \A k \in 1..Len(last.results[j].matches) :
         last.results[j].matches[k].score
           = RMul(RInt(20), RMul(DocumentedBaseWeight, DocumentedLengthWeight))

\* The only string of the sample is short, the record after the sample
\* holds a long one that would take the average past a threshold, and the
\* matches are scored with weight 5 * 2.
C28_Witness ==
  /\ last.op = "inferWeight"
  /\ last.field = <<"info", ".", "Name">>
  /\ DocumentedAverage = RInt(40)
  /\ last.values[Len(last.values)] = StrV(Xs(500))
  /\ Len(last.results) = 2
  /\ last.results[1].matches[1].score = RInt(200)

(***************************************************************************)
(* Detection followed by extraction: the initial predicate draws a record   *)
(* of two properties, whose names may hold a dot, and one action detects    *)
(* the fields of the record and extracts each of them from it.  The strings *)
(* below the first property are "x", those below the second "y".            *)
(***************************************************************************)
\* The values of a property whose non-empty string leaf, if any, is s.
LeafValues(s) ==
  { StrV(s), EmptyStr, NullV,
    ObjV(<<Prop(<<"k">>, StrV(s))>>),
    ObjV(<<Prop(<<"k", ".", "m">>, StrV(s))>>),
    ObjV(<<Prop(<<"k">>, ObjV(<<Prop(<<"k">>, StrV(s))>>))>>) }

FirstNames == { <<"a">>, <<"a", ".", "b">> }

SecondNames == { <<"c">>, <<"c", ".", "d">> }

RoundTripRecords ==
  { ObjV(<<Prop(k1, v1), Prop(k2, v2)>>) :
      k1 \in FirstNames, k2 \in SecondNames,
      v1 \in LeafValues(<<"x">>), v2 \in LeafValues(<<"y">>) }

RoundTripRecordId == <<Cardinality(CollectionIds) + 5, 1>>

InitRoundTrip ==
  /\ stringProcessingCache = <<>>
  /\ fieldDetectionCache = <<>>
  /\ fieldStatsCache = <<>>
  /\ searchCallCount = 0
  /\ steps = 0
  /\ \E record \in RoundTripRecords : last = [op |-> "arguments", record |-> record]

\* The state after detectStringFields(record) had the outcome det and each
\* detected path was extracted with getNestedValue(record, path).
Extracted(det) ==
  /\ fieldDetectionCache' = det.dc
  /\ last' = [op |-> "roundTrip", record |-> last.record, fields |-> det.fields,
              values |-> [i \in 1..Len(det.fields) |->
                            getNestedValue(last.record, det.fields[i])]]

RoundTrip ==
  /\ last.op = "arguments"
  /\ steps' = steps + 1
  /\ Extracted(detectStringFields(fieldDetectionCache, RoundTripRecordId, last.record))
  /\ UNCHANGED <<stringProcessingCache, fieldStatsCache, searchCallCount>>

NextRoundTrip == RoundTrip

SpecRoundTrip == InitRoundTrip /\ [][NextRoundTrip]_vars

\* The non-empty strings found in declaration order below v, through nested
\* objects, within d levels.
RECURSIVE StringLeaves(_, _)
StringLeaves(v, d) ==
  IF d = 0 \/ v.t # "object" THEN <<>>
  ELSE Flatten([i \in 1..Len(v.e) |->
                  IF NonEmptyString(v.e[i].v) THEN <<v.e[i].v>>
                  ELSE StringLeaves(v.e[i].v, d - 1)])

\* C30: each path that auto-detection returns for a record, extracted from
\* the same record, yields the non-empty string that made detection return
\* it, whatever the property names are (a name may hold a dot).
C30_DetectExtractRoundTrip ==
  last.op = "roundTrip" =>
    /\ Len(last.values) = Len(StringLeaves(last.record, DetectMaxDepth))
    /\ \A i \in 1..Len(last.values) :
         last.values[i] = StringLeaves(last.record, DetectMaxDepth)[i]

(***************************************************************************)
(* search step by step, on records that are objects of a heap and may refer *)
(* to each other in cycles.  A record is a reference Ref(id); heap[id] is   *)
(* the own-property list of the object.  `last` holds the position of the   *)
(* call: the recursion of detectStringFields as a stack of frames, then the *)
(* sampling loops, the item and field loops, and the sort.  Each action is  *)
(* one iteration of the loop the call is in; the call of calculateFieldScore *)
(* on one field is one step.  The words of the texts are shorter than 3, so *)
(* that the fuzzy scan of a query of 3 characters runs over them.           *)
(***************************************************************************)
Ref(id) == [t |-> "ref", id |-> id]

IsRef(v) == v.t = "ref"

\* The reducer of getNestedValue over the heap.
RECURSIVE heapReduceKeys(_, _, _)
heapReduceKeys(heap, current, keys) ==
  IF keys = <<>> THEN current
  ELSE heapReduceKeys(
         heap,
         IF IsRef(current)
            /\ \E i \in 1..Len(heap[current.id]) : heap[current.id][i].k = Head(keys)
         THEN heap[current.id][CHOOSE i \in 1..Len(heap[current.id]) :
                                 heap[current.id][i].k = Head(keys)].v
         ELSE EmptyStr,
         Tail(keys))

\* getNestedValue(obj, path) for an object of the heap
heapGetNestedValue(heap, obj, path) ==
  LET r == heapReduceKeys(heap, obj, split(path))
  IN  IF r.t \in {"null", "undefined"} THEN EmptyStr ELSE r

\* A call of detectStringFields that never finds its depth used up.
DepthNeverExhausted(maxDepth) == FALSE

\* maxDepth <= 0
DepthExhausted(maxDepth) == maxDepth <= 0

\* The frames the stack of the model can hold; the recursion of
\* detectStringFields never needs more than DetectMaxDepth.
MaxStack == DetectMaxDepth + 1

\* The frame of a call detectStringFields(obj, prefix, maxDepth) that is at
\* entry idx of Object.entries(obj).
Frame(obj, idx, prefix, depth) ==
  [obj |-> obj, idx |-> idx, prefix |-> prefix, depth |-> depth]

\* {name: "jo", self: <itself>} and {name: "x jo"}
SelfCycle ==
  [heap |-> << <<Prop(<<"name">>, StrV(<<"j", "o">>)), Prop(<<"self">>, Ref(1))>>,
               <<Prop(<<"name">>, StrV(<<"x", " ", "j", "o">>))>> >>,
   data |-> <<Ref(1), Ref(2)>>]

\* a = {peer: b, t: "jo"}, b = {peer: a, name: "jo e"}
MutualCycle ==
  [heap |-> << <<Prop(<<"peer">>, Ref(2)), Prop(<<"t">>, StrV(<<"j", "o">>))>>,
               <<Prop(<<"peer">>, Ref(1)),
                 Prop(<<"name">>, StrV(<<"j", "o", " ", "e">>))>> >>,
   data |-> <<Ref(1), Ref(2)>>]

\* {a: {b: {s: "jo", c: {d: "jo"}}}}: four levels, no cycle
DeepRecord ==
  [heap |-> << <<Prop(<<"a">>, Ref(2))>>,
               <<Prop(<<"b">>, Ref(3))>>,
               <<Prop(<<"s">>, StrV(<<"j", "o">>)), Prop(<<"c">>, Ref(4))>>,
               <<Prop(<<"d">>, StrV(<<"j", "o">>))>> >>,
   data |-> <<Ref(1)>>]

\* [null, {name: "jo", self: <itself>}]
NullFirst == [heap |-> SelfCycle.heap, data |-> <<NullV, Ref(1)>>]

EmptyCollection == [heap |-> <<>>, data |-> <<>>]

TermInputs == { SelfCycle, MutualCycle, DeepRecord, NullFirst, EmptyCollection }

TermQueries ==
  { <<" ">>, <<"j">>, <<"j", "o">>, <<"j", "x">>, <<"j", "o", "y">> }

TermCollectionId == Cardinality(CollectionIds) + 6

InitTerm ==
  /\ stringProcessingCache = <<>>
  /\ fieldDetectionCache = <<>>
  /\ fieldStatsCache = <<>>
  /\ searchCallCount = 0
  /\ steps = 0
  /\ \E input \in TermInputs, query \in TermQueries :
       last = [op |-> "arguments", heap |-> input.heap, data |-> input.data,
               query |-> query]

\* The entry of search(data, query): the counter, the cleanup, the
\* empty-query return, and the call detectStringFields(data[0]).
TermCall ==
  /\ last.op = "arguments"
  /\ searchCallCount' = searchCallCount + 1
  /\ stringProcessingCache' = PeriodicCleanup(stringProcessingCache, searchCallCount + 1)
  /\ last' =
       IF trim(last.query) = <<>>
       THEN [op |-> "returned", heap |-> last.heap, data |-> last.data,
             query |-> last.query, fields |-> <<>>,
             results |-> [i \in 1..Len(last.data) |->
                            [item |-> i, score |-> RInt(0), matches |-> <<>>]]]
       ELSE [op |-> "running", pc |-> "detect", heap |-> last.heap,
             data |-> last.data, query |-> last.query,
             stack |-> IF Len(last.data) > 0 /\ IsRef(last.data[1])
                          /\ ~DepthExhausted(DetectMaxDepth)
                       THEN <<Frame(last.data[1].id, 1, <<>>, DetectMaxDepth)>>
                       ELSE <<>>,
             fields |-> <<>>, fi |-> 1, si |-> 1, total |-> 0, count |-> 0,
             stats |-> <<>>, ii |-> 1, ki |-> 1, matches |-> <<>>,
             totalScore |-> RInt(0), results |-> <<>>]
  /\ steps' = steps + 1
  /\ UNCHANGED <<fieldDetectionCache, fieldStatsCache>>

\* The stack with the top frame moved to its next entry.
NextEntry(stack) ==
  [stack EXCEPT ![Len(stack)].idx = stack[Len(stack)].idx + 1]

\* One iteration of `for (const [key, value] of Object.entries(obj))` in the
\* innermost call of detectStringFields, or its return.
DetectEntry(top, key, value, fieldPath) ==
  IF value.t = "string" /\ Len(value.s) > 0
  THEN last' = [last EXCEPT !.fields = Append(@, fieldPath),
                            !.stack = NextEntry(@)]
  ELSE IF IsRef(value)
  THEN IF DepthExhausted(top.depth - 1)
       THEN last' = [last EXCEPT !.stack = NextEntry(@)]
       ELSE /\ Len(last.stack) < MaxStack
            /\ last' = [last EXCEPT
                          !.stack = Append(NextEntry(@),
                                           Frame(value.id, 1, fieldPath,
                                                 top.depth - 1))]
  ELSE last' = [last EXCEPT !.stack = NextEntry(@)]

DetectFrame(top, props) ==
  IF top.idx > Len(props)
  THEN last' = [last EXCEPT !.stack = SubSeq(@, 1, Len(@) - 1)]
  ELSE DetectEntry(top, props[top.idx].k, props[top.idx].v,
                   IF top.prefix # <<>>
                   THEN top.prefix \o <<".">> \o props[top.idx].k
                   ELSE props[top.idx].k)

DetectStep ==
  /\ last.op = "running" /\ last.pc = "detect"
  /\ IF last.stack = <<>>
     THEN /\ last' = [last EXCEPT !.pc = "stats"]
          /\ fieldDetectionCache' =
               IF Len(last.data) > 0 /\ IsRef(last.data[1])
               THEN (<<TermCollectionId, 1>> :> last.fields) @@ fieldDetectionCache
               ELSE fieldDetectionCache
     ELSE /\ DetectFrame(last.stack[Len(last.stack)],
                         last.heap[last.stack[Len(last.stack)].obj])
          /\ UNCHANGED fieldDetectionCache
  /\ steps' = steps + 1
  /\ UNCHANGED <<stringProcessingCache, fieldStatsCache, searchCallCount>>

\* The sample counters after the value `text` of the sampled item.
Sampled(text) ==
  IF Truthy(text) /\ text.t = "string" /\ Len(text.s) > 0
  THEN [last EXCEPT !.total = @ + Len(text.s), !.count = @ + 1, !.si = @ + 1]
  ELSE [last EXCEPT !.si = @ + 1]

\* The statistics of the field whose sampling loop has ended.
SampledStats ==
  [avgLength |-> IF last.count > 0 THEN Rat(last.total, last.count) ELSE RInt(0),
   weight |->
     RMul(RInt(BaseWeight(LastSegmentLower(last.fields[last.fi]))),
          LengthWeight(IF last.count > 0 THEN Rat(last.total, last.count)
                       ELSE RInt(0)))]

\* One iteration of the sampling loop of calculateFieldStats, the end of the
\* loop for one field, or the end of `for (const field of searchFields)`.
StatsStep ==
  /\ last.op = "running" /\ last.pc = "stats"
  /\ IF last.fi > Len(last.fields)
     THEN /\ last' = [last EXCEPT !.pc = "scan"]
          /\ fieldStatsCache' = (TermCollectionId :> last.stats) @@ fieldStatsCache
     ELSE /\ last' =
               IF last.si > Min(Len(last.data), SampleCap)
               THEN [last EXCEPT
                       !.stats = (last.fields[last.fi] :> SampledStats) @@ @,
                       !.fi = @ + 1, !.si = 1, !.total = 0, !.count = 0]
               ELSE CHOOSE next \in
                      {Sampled(text) :
                         text \in {heapGetNestedValue(last.heap, last.data[last.si],
                                                      last.fields[last.fi])}} : TRUE
          /\ UNCHANGED fieldStatsCache
  /\ steps' = steps + 1
  /\ UNCHANGED <<stringProcessingCache, fieldDetectionCache, searchCallCount>>

\* The end of the field loop for item ii: the push of its Result and the
\* test of the early termination.
ItemDone ==
  LET results == IF Len(last.matches) > 0
                 THEN Append(last.results,
                             [item |-> last.ii, score |-> last.totalScore,
                              matches |-> last.matches])
                 ELSE last.results
  IN  [last EXCEPT !.results = results,
                   !.pc = IF Len(results) >= MaxResults(DEFAULT_LIMIT, last.data)
                          THEN "sort" ELSE "scan",
                   !.ii = @ + 1, !.ki = 1, !.matches = <<>>,
                   !.totalScore = RInt(0)]

\* The field loop after the outcome r of calculateFieldScore on field ki.
FieldScored(r) ==
  /\ stringProcessingCache' = r.cache
  /\ last' =
       IF r.throws THEN [last EXCEPT !.op = "raised"]
       ELSE IF r.match # NoMatch
       THEN [last EXCEPT
               !.matches = Append(@, [r.match EXCEPT !.field = last.fields[last.ki]]),
               !.totalScore = RAdd(@, r.match.score),
               !.ki = @ + 1]
       ELSE [last EXCEPT !.ki = @ + 1]

\* The field loop for the extracted value `text` of field ki; r is the
\* value calculateFieldScore returns.
FieldRead(text) ==
  IF ~Truthy(text)
  THEN /\ last' = [last EXCEPT !.ki = @ + 1]
       /\ UNCHANGED stringProcessingCache
  ELSE \E r \in {calculateFieldScore(stringProcessingCache, text, trim(last.query),
                                      ResolveWeight(DEFAULT_SEARCH_OPTIONS.fieldWeights,
                                                    last.stats, last.fields[last.ki]),
                                      SearchOptionsOf(NoOptions))} :
         FieldScored(r)

\* One iteration of the item loop or of the field loop inside it.
ScanStep ==
  /\ last.op = "running" /\ last.pc = "scan"
  /\ IF last.ii > Len(last.data)
     THEN /\ last' = [last EXCEPT !.pc = "sort"]
          /\ UNCHANGED stringProcessingCache
     ELSE IF ~Truthy(last.data[last.ii])
     THEN /\ last' = [last EXCEPT !.ii = @ + 1]
          /\ UNCHANGED stringProcessingCache
     ELSE IF last.ki > Len(last.fields)
     THEN /\ last' = ItemDone
          /\ UNCHANGED stringProcessingCache
     ELSE \E text \in {heapGetNestedValue(last.heap, last.data[last.ii],
                                         last.fields[last.ki])} :
            FieldRead(text)
  /\ steps' = steps + 1
  /\ UNCHANGED <<fieldDetectionCache, fieldStatsCache, searchCallCount>>

\* results.sort(...), the slice and the return.
SortStep ==
  /\ last.op = "running" /\ last.pc = "sort"
  /\ last' = [op |-> "returned", heap |-> last.heap, data |-> last.data,
              query |-> last.query, fields |-> last.fields,
              results |-> Slice(SortResults(last.results), DEFAULT_LIMIT)]
  /\ steps' = steps + 1
  /\ UNCHANGED <<stringProcessingCache, fieldDetectionCache, fieldStatsCache,
                 searchCallCount>>

NextTerm == TermCall \/ DetectStep \/ StatsStep \/ ScanStep \/ SortStep

\* search is synchronous: once called, the engine runs its next statement
\* until the call returns.
SpecTerm == InitTerm /\ [][NextTerm]_vars /\ WF_vars(NextTerm)

\* C29: every call of search returns, on every collection, among them
\* collections whose first record refers to itself or to a record that
\* refers back (the detection recursion stops at depth 3).
C29_Termination == <>(last.op = "returned")

\* The call returned on the record that refers to itself: detection went
\* round the cycle twice and stopped, and the record matched on each path.
C29_Witness ==
  /\ last.op = "returned"
  /\ last.heap = SelfCycle.heap /\ last.data = SelfCycle.data
  /\ last.fields = << <<"name">>, <<"self", ".", "name">>,
                      <<"self", ".", "self", ".", "name">> >>
  /\ Len(last.results) = 2
  /\ Len(last.results[1].matches) = 3

====
